---------------------------- MODULE Spec2Model ----------------------------
(***************************************************************************)
(* Model of the Strands adapter (src/unnamed/part_000):                    *)
(*   - StrandsStreamProcessor: the stateful processor of stream frames;    *)
(*   - convertToStrandsFormat and the attachment resolver it calls.        *)
(*                                                                         *)
(* JavaScript values are tagged records, so that undefined, null, strings, *)
(* numbers and objects can be told apart the way the code tells them apart *)
(* (truthiness, property reads, the in operator).  A string is a sequence  *)
(* of one-character strings, because trim() and the data-URL regular       *)
(* expression look at single characters.                                   *)
(***************************************************************************)
EXTENDS Integers, Sequences, FiniteSets, TLC

VARIABLES
    currentContentBlockType,  \* StrandsStreamProcessor.currentContentBlockType
    toolUseBuffer,            \* StrandsStreamProcessor.toolUseBuffer
    call,                     \* the last call on the processor and what it returned
    roundTrip,                \* observer: progress through start(toolUse), delta(toolUse), stop
    fresh,                    \* observer: a new processor fed the frames since the last reset
    history,                  \* observer: what the frames received so far amount to
    messages,                 \* convertToStrandsFormat: argument messages
    uploadedFiles,            \* convertToStrandsFormat: argument uploadedFiles
    base64Cache,              \* convertToStrandsFormat: argument base64Cache
    strandsMessages,          \* convertToStrandsFormat: the returned list
    pc,                       \* "idle" | "input" | "done" | "threw" position of the conversion
    inputFiles,               \* convertFilesToStrandsContentBlocks: argument files
    fileIndex,                \* convertFilesToStrandsContentBlocks: position of the for loop
    fileBase64Data,           \* convertFilesToStrandsContentBlocks: the awaited base64Data
    fileContentBlocks,        \* convertFilesToStrandsContentBlocks: contentBlocks
    filesPc                   \* where convertFilesToStrandsContentBlocks is suspended

vars == <<currentContentBlockType, toolUseBuffer, call, roundTrip, fresh, history,
          messages, uploadedFiles, base64Cache, strandsMessages, pc,
          inputFiles, fileIndex, fileBase64Data, fileContentBlocks, filesPc>>

procVars == <<currentContentBlockType, toolUseBuffer, call, roundTrip, fresh, history>>
convVars == <<messages, uploadedFiles, base64Cache, strandsMessages, pc>>
fileVars == <<inputFiles, fileIndex, fileBase64Data, fileContentBlocks, filesPc>>

---------------------------------------------------------------------------
(* Bounds of the model *)

\* longest tool buffer the model lets a run build
MaxBuf == 2

---------------------------------------------------------------------------
(* JavaScript values *)

Undefined == [t |-> "undefined"]
Null == [t |-> "null"]
Str(s) == [t |-> "string", v |-> s]
Num(n) == [t |-> "number", v |-> n]
Obj(fields) == [t |-> "object", v |-> fields]
Arr(items) == [t |-> "array", v |-> items]
EmptyObj == Obj(<<>>)
EmptyStr == Str(<<>>)

\* if (v), v && ..., v || ...
Truthy(v) ==
    CASE v.t = "undefined" -> FALSE
      [] v.t = "null" -> FALSE
      [] v.t = "string" -> Len(v.v) > 0
      [] v.t = "number" -> v.v # 0
      [] OTHER -> TRUE

\* v.k does not throw
CanRead(v) == v.t \notin {"undefined", "null"}

\* v.k for a value v that can be read
Get(v, k) == IF v.t = "object" /\ k \in DOMAIN v.v THEN v.v[k] ELSE Undefined

\* 'k' in v does not throw
CanIn(v) == v.t \in {"object", "array"}

\* 'k' in v
In(k, v) == v.t = "object" /\ k \in DOMAIN v.v

\* a || b
Or(a, b) == IF Truthy(a) THEN a ELSE b

Digit(d) == <<"0", "1", "2", "3", "4", "5", "6", "7", "8", "9">>[d + 1]

RECURSIVE Decimal(_)
Decimal(n) == IF n < 10 THEN <<Digit(n)>> ELSE Decimal(n \div 10) \o <<Digit(n % 10)>>

\* the outcome of an evaluation that throws a TypeError
TypeError == [t |-> "TypeError"]

RECURSIVE ToStr(_)
RECURSIVE Join(_)

\* string conversion of a template literal `${v}` and of '' + v: a string, or TypeError.
\* An array converts to its elements joined with commas.  An object converts to
\* [object Object] through Object.prototype.toString, unless it has a toString property
\* of its own: no value that comes out of JSON.parse can be called, and valueOf does not
\* give a primitive, so the conversion throws.
ToStr(v) ==
    CASE v.t = "string" -> v
      [] v.t = "undefined" -> Str(<<"u", "n", "d", "e", "f", "i", "n", "e", "d">>)
      [] v.t = "null" -> Str(<<"n", "u", "l", "l">>)
      [] v.t = "number" ->
            Str(IF v.v < 0 THEN <<"-">> \o Decimal(0 - v.v) ELSE Decimal(v.v))
      [] v.t = "array" -> Join(v.v)
      [] OTHER ->
            IF "toString" \in DOMAIN v.v THEN TypeError
            ELSE Str(<<"[", "o", "b", "j", "e", "c", "t", " ", "O", "b", "j", "e", "c", "t", "]">>)

\* items.join(','): undefined and null give the empty string, the others their string
\* conversion
Join(items) ==
    IF Len(items) = 0 THEN EmptyStr
    ELSE LET first == IF Head(items).t \in {"undefined", "null"} THEN EmptyStr
                      ELSE ToStr(Head(items))
         IN IF Len(items) = 1 THEN first
            ELSE LET rest == Join(Tail(items)) IN
                 IF first.t = "TypeError" \/ rest.t = "TypeError" THEN TypeError
                 ELSE Str(first.v \o <<",">> \o rest.v)

---------------------------------------------------------------------------
(* String literals of the stream processor *)

\* the character U+0060, which a TLA+ string literal cannot hold
Backtick == "<U+0060>"
Backticks == <<Backtick, Backtick, Backtick>>
NewLine == <<"\n">>
ErrorPrefix == <<"E", "r", "r", "o", "r", ":", " ">>
AnErrorOccurred == <<"A", "n", " ", "e", "r", "r", "o", "r", " ", "o", "c", "c", "u", "r", "r", "e", "d">>

---------------------------------------------------------------------------
(* StrandsStreamProcessor *)

\* a processor object: its two private fields
Processor(type, buffer) == [currentContentBlockType |-> type, toolUseBuffer |-> buffer]

\* field initialisers of the class
NewProcessor == Processor("null", <<>>)

\* how a block of statements ends: a return, or a throw
Return(self, value) == [self |-> self, ret |-> value, threw |-> FALSE]
Throw(self) == [self |-> self, ret |-> Undefined, threw |-> TRUE]

resetKeepsBuffer(self) == Processor("null", self.toolUseBuffer)

reset(self) == Processor("null", <<>>)

\* JSON.parse(eventText): the text either denotes a JSON value or is not JSON
JSONParse(eventText) ==
    IF eventText.ok THEN [threw |-> FALSE, value |-> eventText.json]
    ELSE [threw |-> TRUE, value |-> Undefined]

HandleRedactContentResets(self, streamEvent) ==
    IF Truthy(Get(streamEvent, "redactContent")) THEN Return(reset(self), Null)
    ELSE Return(self, Null)

HandleRedactContent(self, streamEvent) ==
    LET redactContent == Get(streamEvent, "redactContent") IN
    IF Truthy(redactContent)
    THEN IF Truthy(Get(redactContent, "redactAssistantContentMessage"))
         THEN Return(self, Obj([text |-> Get(redactContent, "redactAssistantContentMessage")]))
         ELSE Return(self, Null)
    ELSE Return(self, Null)

ErrorTextNoFallback(errorEvent) ==
    LET message == ToStr(Get(errorEvent, "message")) IN
    IF message.t = "TypeError" THEN TypeError ELSE Str(ErrorPrefix \o message.v)

\* `Error: ${errorEvent.message || 'An error occurred'}`: a string, or TypeError
ErrorText(errorEvent) ==
    LET message == ToStr(Or(Get(errorEvent, "message"), Str(AnErrorOccurred))) IN
    IF message.t = "TypeError" THEN TypeError ELSE Str(ErrorPrefix \o message.v)

HandleError(self, streamEvent) ==
    LET errorEvent ==
            Or(Get(streamEvent, "internalServerException"),
            Or(Get(streamEvent, "modelStreamErrorException"),
            Or(Get(streamEvent, "serviceUnavailableException"),
            Or(Get(streamEvent, "throttlingException"),
               Get(streamEvent, "validationException")))))
    IN
    IF Truthy(errorEvent)
    THEN LET text == ErrorText(errorEvent) IN
         IF text.t = "TypeError" THEN Throw(self) ELSE Return(self, Obj([text |-> text]))
    ELSE HandleRedactContent(self, streamEvent)

UsageDropCache(usage) ==
    Obj([inputTokens |-> Get(usage, "inputTokens"),
         outputTokens |-> Get(usage, "outputTokens"),
         totalTokens |-> Get(usage, "totalTokens"),
         cacheReadInputTokens |-> Undefined,
         cacheWriteInputTokens |-> Undefined])

UsageOf(usage) ==
    Obj([inputTokens |-> Get(usage, "inputTokens"),
         outputTokens |-> Get(usage, "outputTokens"),
         totalTokens |-> Get(usage, "totalTokens"),
         cacheReadInputTokens |-> Get(usage, "cacheReadInputTokens"),
         cacheWriteInputTokens |-> Get(usage, "cacheWriteInputTokens")])

HandleMetadata(self, streamEvent) ==
    LET metadata == Get(streamEvent, "metadata") IN
    IF Truthy(metadata)
    THEN LET usage == Get(metadata, "usage") IN
         IF ~CanRead(usage) THEN Throw(self)
         ELSE Return(self, Obj([text |-> EmptyStr,
                                metadata |-> Obj([usage |-> UsageOf(usage)])]))
    ELSE HandleError(self, streamEvent)

HandleMessageStop(self, streamEvent) ==
    IF Truthy(Get(streamEvent, "messageStop"))
    THEN Return(reset(self), Null)
    ELSE HandleMetadata(self, streamEvent)

StopResultAfterClear(self) == Null

StopResult(self) ==
    IF self.currentContentBlockType = "text"
    THEN Obj([text |-> Str(NewLine)])
    ELSE IF self.currentContentBlockType = "toolUse"
    THEN Obj([text |-> EmptyStr, trace |-> Str(NewLine \o Backticks \o NewLine)])
    ELSE Null

HandleContentBlockStopKeepsKind(self, streamEvent) ==
    IF Truthy(Get(streamEvent, "contentBlockStop"))
    THEN Return(self, StopResult(self))
    ELSE HandleMessageStop(self, streamEvent)

HandleContentBlockStop(self, streamEvent) ==
    IF Truthy(Get(streamEvent, "contentBlockStop"))
    THEN Return(Processor("null", self.toolUseBuffer), StopResult(self))
    ELSE HandleMessageStop(self, streamEvent)

TextResultAsTrace(text) == Obj([text |-> EmptyStr, trace |-> text])

\* the record returned for the text of a start or of a delta: { text: start.text },
\* { text: delta.text }
TextResult(text) == Obj([text |-> text])

AfterTextDeltaInToolUse(self) ==
    IF self.currentContentBlockType = "toolUse" THEN self
    ELSE Processor("text", self.toolUseBuffer)

\* this.currentContentBlockType = 'text' of the text delta
AfterTextDelta(self) == Processor("text", self.toolUseBuffer)

HandleContentBlockDelta(self, streamEvent) ==
    IF Truthy(Get(streamEvent, "contentBlockDelta"))
    THEN LET delta == Get(Get(streamEvent, "contentBlockDelta"), "delta") IN
         IF ~CanRead(delta) THEN Throw(self)
         ELSE IF Truthy(Get(delta, "text"))
         THEN Return(AfterTextDelta(self), TextResult(Get(delta, "text")))
         ELSE IF Truthy(Get(delta, "toolUse"))
         THEN LET input == ToStr(Get(Get(delta, "toolUse"), "input")) IN
              \* the type is assigned before the += that converts the input
              IF input.t = "TypeError" THEN Throw(Processor("toolUse", self.toolUseBuffer))
              ELSE Return(Processor("toolUse", self.toolUseBuffer \o input.v),
                          Obj([text |-> EmptyStr,
                               trace |-> Get(Get(delta, "toolUse"), "input")]))
         ELSE IF CanRead(Get(delta, "reasoningContent"))
                 /\ Truthy(Get(Get(delta, "reasoningContent"), "text"))
         THEN Return(Processor("reasoning", self.toolUseBuffer),
                     Obj([text |-> EmptyStr,
                          trace |-> Get(Get(delta, "reasoningContent"), "text")]))
         ELSE HandleContentBlockStop(self, streamEvent)
    ELSE HandleContentBlockStop(self, streamEvent)

OpenToolUseKeepsBuffer(self) == Processor("toolUse", self.toolUseBuffer)

\* this.currentContentBlockType = 'toolUse'; this.toolUseBuffer = ''
OpenToolUse(self) == Processor("toolUse", <<>>)

HandleContentBlockStart(self, streamEvent) ==
    IF Truthy(Get(streamEvent, "contentBlockStart"))
    THEN LET start == Get(Get(streamEvent, "contentBlockStart"), "start") IN
         IF ~CanIn(start) THEN Throw(self)
         ELSE IF In("text", start) /\ Truthy(Get(start, "text"))
         THEN Return(Processor("text", self.toolUseBuffer), TextResult(Get(start, "text")))
         ELSE IF In("toolUse", start) /\ Truthy(Get(start, "toolUse"))
         THEN LET name == ToStr(Get(Get(start, "toolUse"), "name")) IN
              \* both fields are assigned before the template literal converts the name
              IF name.t = "TypeError" THEN Throw(OpenToolUse(self))
              ELSE Return(OpenToolUse(self),
                          Obj([text |-> EmptyStr,
                               trace |-> Str(Backticks \o name.v \o NewLine)]))
         ELSE HandleContentBlockDelta(self, streamEvent)
    ELSE HandleContentBlockDelta(self, streamEvent)

\* the try block of processEvent
TryProcessEvent(self, eventText) ==
    LET parsed == JSONParse(eventText) IN
    IF parsed.threw THEN Throw(self)
    ELSE LET parsedEvent == parsed.value IN
         IF ~CanRead(parsedEvent) THEN Throw(self)
         ELSE LET streamEvent == Get(parsedEvent, "event") IN
              IF ~Truthy(streamEvent) THEN Return(self, Null)
              ELSE IF Truthy(Get(streamEvent, "messageStart"))
              THEN Return(reset(self), Null)
              ELSE HandleContentBlockStart(self, streamEvent)

\* processEvent: the try block and its catch, which logs and returns null
processEvent(self, eventText) ==
    LET r == TryProcessEvent(self, eventText) IN
    IF r.threw THEN Return(r.self, Null) ELSE r


---------------------------------------------------------------------------
(* Frames fed to the processor *)

\* the text of a frame that deserializes to the JSON value json
Json(json) == [ok |-> TRUE, json |-> json]

\* the text {"event": e}
Event(e) == Json(Obj([event |-> e]))

\* text that JSON.parse rejects
MalformedFrame == [ok |-> FALSE, json |-> Undefined]

\* the text null: JSON, but reading its event field throws
JsonNullFrame == Json(Null)

\* JSON without an event field
NoEventFrame == Json(Obj([type |-> Str(<<"p", "i", "n", "g">>)]))

\* an event of a kind the processor does not know
UnknownFrame == Event(Obj([ping |-> EmptyObj]))

MessageStartFrame == Event(Obj([messageStart |-> Obj([role |-> Str(<<"a", "s", "s", "i", "s", "t", "a", "n", "t">>)])]))
MessageStopFrame == Event(Obj([messageStop |-> Obj([stopReason |-> Str(<<"e", "n", "d", "_", "t", "u", "r", "n">>)])]))
ContentBlockStopFrame == Event(Obj([contentBlockStop |-> Obj([contentBlockIndex |-> Num(0)])]))

TextStartFrame(t) == Event(Obj([contentBlockStart |-> Obj([start |-> Obj([text |-> Str(t)])])]))
ToolUseStartFrame(name) ==
    Event(Obj([contentBlockStart |->
                 Obj([start |-> Obj([toolUse |-> Obj([toolUseId |-> Str(<<"t", "1">>),
                                                       name |-> Str(name)])])])]))
TextDeltaFrame(t) == Event(Obj([contentBlockDelta |-> Obj([delta |-> Obj([text |-> Str(t)])])]))
ToolUseDeltaFrame(input) ==
    Event(Obj([contentBlockDelta |->
                 Obj([delta |-> Obj([toolUse |-> Obj([input |-> Str(input)])])])]))
ReasoningDeltaFrame(t) ==
    Event(Obj([contentBlockDelta |->
                 Obj([delta |-> Obj([reasoningContent |-> Obj([text |-> Str(t)])])])]))

\* frames whose structure makes a handler throw: no start, no delta, no usage
StartWithoutStartFrame == Event(Obj([contentBlockStart |-> EmptyObj]))
DeltaWithoutDeltaFrame == Event(Obj([contentBlockDelta |-> EmptyObj]))
MetadataWithoutUsageFrame == Event(Obj([metadata |-> EmptyObj]))

\* a JSON object that has no string conversion: its own toString is not a function
Unprintable == Obj([toString |-> Str(<<"x">>)])

\* frames that make a handler throw while it converts a value to a string: the name of
\* a tool-use start, the input of a tool-use delta, the message of an error
UnprintableNameFrame ==
    Event(Obj([contentBlockStart |->
                 Obj([start |-> Obj([toolUse |-> Obj([name |-> Unprintable])])])]))
UnprintableInputFrame ==
    Event(Obj([contentBlockDelta |->
                 Obj([delta |-> Obj([toolUse |-> Obj([input |-> Unprintable])])])]))
UnprintableMessageFrame ==
    Event(Obj([throttlingException |-> Obj([message |-> Unprintable])]))

\* usage with the three counts, and the cache counts only when cacheRead / cacheWrite say so
Usage(i, o, cacheRead, cacheWrite) ==
    CASE cacheRead /\ cacheWrite ->
            Obj([inputTokens |-> Num(i), outputTokens |-> Num(o), totalTokens |-> Num(i + o),
                 cacheReadInputTokens |-> Num(0), cacheWriteInputTokens |-> Num(7)])
      [] cacheRead /\ ~cacheWrite ->
            Obj([inputTokens |-> Num(i), outputTokens |-> Num(o), totalTokens |-> Num(i + o),
                 cacheReadInputTokens |-> Num(0)])
      [] ~cacheRead /\ cacheWrite ->
            Obj([inputTokens |-> Num(i), outputTokens |-> Num(o), totalTokens |-> Num(i + o),
                 cacheWriteInputTokens |-> Num(7)])
      [] OTHER ->
            Obj([inputTokens |-> Num(i), outputTokens |-> Num(o), totalTokens |-> Num(i + o)])

MetadataFrame(usage) == Event(Obj([metadata |-> Obj([usage |-> usage])]))

ErrorVariants ==
    {"internalServerException", "modelStreamErrorException", "serviceUnavailableException",
     "throttlingException", "validationException"}

\* the event {variant: body}
ErrorEvent(variant, body) ==
    CASE variant = "internalServerException" -> Obj([internalServerException |-> body])
      [] variant = "modelStreamErrorException" -> Obj([modelStreamErrorException |-> body])
      [] variant = "serviceUnavailableException" -> Obj([serviceUnavailableException |-> body])
      [] variant = "throttlingException" -> Obj([throttlingException |-> body])
      [] OTHER -> Obj([validationException |-> body])

ErrorFrame(variant, message) == Event(ErrorEvent(variant, Obj([message |-> Str(message)])))
ErrorFrameNoMessage(variant) == Event(ErrorEvent(variant, EmptyObj))

RedactFrame(message) ==
    Event(Obj([redactContent |-> Obj([redactAssistantContentMessage |-> Str(message)])]))
RedactFrameNoPayload == Event(Obj([redactContent |-> EmptyObj]))

\* the strings the frames of the model carry
Texts == {<<>>, <<"H", "i">>}
ToolNames == {<<>>, <<"X">>, <<"g", "e", "t">>}
ToolInputs == {<<>>, <<"{">>, <<"}">>}
ReasoningTexts == {<<>>, <<"h", "m">>}
ErrorMessages == {<<>>, <<"r", "a", "t", "e", " ", "l", "i", "m", "i", "t", "e", "d">>}
RedactMessages == {<<>>, <<"r", "e", "d", "a", "c", "t", "e", "d">>}
Usages == {Usage(10, 5, r, w) : r \in BOOLEAN, w \in BOOLEAN}

ToolUseStartFrames == {ToolUseStartFrame(n) : n \in ToolNames}
ToolUseDeltaFrames == {ToolUseDeltaFrame(i) : i \in ToolInputs}
MetadataFrames == {MetadataFrame(u) : u \in Usages}
ErrorFrames ==
    {ErrorFrame(v, m) : v \in ErrorVariants, m \in ErrorMessages}
        \cup {ErrorFrameNoMessage(v) : v \in ErrorVariants}

\* frames that cannot be deserialized, or whose structure makes a handler fail
BadFrames ==
    {MalformedFrame, JsonNullFrame, StartWithoutStartFrame, DeltaWithoutDeltaFrame,
     MetadataWithoutUsageFrame, UnprintableNameFrame, UnprintableInputFrame,
     UnprintableMessageFrame}

Frames ==
    BadFrames
        \cup {NoEventFrame, UnknownFrame, MessageStartFrame, MessageStopFrame,
              ContentBlockStopFrame, RedactFrameNoPayload}
        \cup {TextStartFrame(t) : t \in Texts}
        \cup ToolUseStartFrames
        \cup {TextDeltaFrame(t) : t \in Texts}
        \cup ToolUseDeltaFrames
        \cup {ReasoningDeltaFrame(t) : t \in ReasoningTexts}
        \cup MetadataFrames
        \cup ErrorFrames
        \cup {RedactFrame(m) : m \in RedactMessages}


---------------------------------------------------------------------------
(* The processor as a state machine: one action per public method *)

Min2(a, b) == IF a <= b THEN a ELSE b

\* the processor object held in the variables
Self == Processor(currentContentBlockType, toolUseBuffer)

NoCall == [op |-> "new", eventText |-> MalformedFrame, before |-> NewProcessor,
           ret |-> Undefined, threw |-> FALSE]

NoRoundTrip == [frames |-> <<>>, outs |-> <<>>]

\* the observer of the sequence start(toolUse), delta(toolUse), stop begun in state none
RoundTripStep(rt, before, eventText, ret) ==
    IF Len(rt.frames) = 1 /\ eventText \in ToolUseDeltaFrames
    THEN [frames |-> Append(rt.frames, eventText), outs |-> Append(rt.outs, ret)]
    ELSE IF Len(rt.frames) = 2 /\ eventText = ContentBlockStopFrame
    THEN [frames |-> Append(rt.frames, eventText), outs |-> Append(rt.outs, ret)]
    ELSE IF before.currentContentBlockType = "null" /\ eventText \in ToolUseStartFrames
    THEN [frames |-> <<eventText>>, outs |-> <<ret>>]
    ELSE NoRoundTrip

NoFresh == [active |-> FALSE, dirty |-> FALSE, self |-> NewProcessor, ret |-> Undefined]

\* a newly constructed processor, started when the real one is reset
StartFresh(before, ret) ==
    [active |-> TRUE, dirty |-> before # NewProcessor, self |-> NewProcessor, ret |-> ret]

\* frames that begin a message or end one
BoundaryFrames == {MessageStartFrame, MessageStopFrame}

\* nothing received yet
NoHistory ==
    [stops |-> 0, opened |-> FALSE, sinceOpen |-> <<>>, sinceClear |-> <<>>,
     held |-> NewProcessor, heldBefore |-> NewProcessor, afterPassive |-> FALSE,
     setter |-> "null", setterBefore |-> "null",
     toolUseSinceFence |-> TRUE, fenceAfterToolUse |-> TRUE]

\* the kind a frame sets whatever the kind before it, "keep" for a frame that sets none:
\* a start or delta frame sets the kind of the non-empty text, tool use or reasoning text
\* it carries; a content-block-stop and a boundary frame set none
TextSettingFrames ==
    {TextStartFrame(t) : t \in Texts \ {<<>>}} \cup {TextDeltaFrame(t) : t \in Texts \ {<<>>}}
\* a tool-use start frame assigns the kind and empties the buffer before it converts the
\* name, a tool-use delta frame assigns the kind before it converts the input
ToolUseOpeningFrames == ToolUseStartFrames \cup {UnprintableNameFrame}
ToolUseSettingFrames ==
    ToolUseOpeningFrames \cup ToolUseDeltaFrames \cup {UnprintableInputFrame}
ReasoningSettingFrames == {ReasoningDeltaFrame(t) : t \in ReasoningTexts \ {<<>>}}
ClosingFrames == BoundaryFrames \cup {ContentBlockStopFrame}

KindSetBy(eventText) ==
    CASE eventText \in TextSettingFrames -> "text"
      [] eventText \in ToolUseSettingFrames -> "toolUse"
      [] eventText \in ReasoningSettingFrames -> "reasoning"
      [] eventText \in ClosingFrames -> "null"
      [] OTHER -> "keep"

\* the closing fence of a tool-use block, as a returned record
ClosingFence == Obj([text |-> EmptyStr, trace |-> Str(NewLine \o Backticks \o NewLine)])

\* frames of the kinds that are not part of a block's life: metadata, errors, redaction,
\* no event field, unknown kind
PassiveFrames ==
    MetadataFrames \cup ErrorFrames \cup {RedactFrame(m) : m \in RedactMessages}
        \cup {RedactFrameNoPayload, NoEventFrame, UnknownFrame}

\* the input a tool-use delta frame carries
InputOf(eventText) == CHOOSE i \in ToolInputs : eventText = ToolUseDeltaFrame(i)

\* the observer of the frames received.
\*   stops: the content-block-stop frames received in a row up to the last frame
\*          (2 stands for two or more);
\*   opened: a tool-use start frame was received and no stop or boundary frame since;
\*   sinceOpen: the inputs of the tool-use delta frames received since the last
\*          tool-use start, stop or boundary frame, in arrival order;
\*   sinceClear: those received since the last tool-use start or boundary frame;
\*   held: the processor as the last frame other than a passive one left it;
\*   afterPassive: the last frame is a content-block-stop and the one before it was
\*          a passive frame;
\*   heldBefore: held as it was before that content-block-stop;
\*   setter: the kind set by the last frame that sets one;
\*   setterBefore: setter as it was before the last frame, when that is a
\*          content-block-stop;
\*   toolUseSinceFence: no closing fence was returned yet, or a tool-use start or
\*          delta frame was received since the last one;
\*   fenceAfterToolUse: the last frame returned no closing fence, or
\*          toolUseSinceFence held before it.
\* last is the call before this one, after the processor as this call leaves it, ret
\* what it returns.
HistoryStep(h, last, eventText, after, ret) ==
    [stops |-> IF eventText = ContentBlockStopFrame THEN Min2(h.stops + 1, 2) ELSE 0,
     opened |-> IF eventText \in ToolUseOpeningFrames THEN TRUE
                ELSE IF eventText \in ClosingFrames THEN FALSE
                ELSE h.opened,
     sinceOpen |-> IF eventText \in ToolUseDeltaFrames THEN h.sinceOpen \o InputOf(eventText)
                   ELSE IF eventText \in ToolUseOpeningFrames \/ eventText \in ClosingFrames
                   THEN <<>>
                   ELSE h.sinceOpen,
     sinceClear |-> IF eventText \in ToolUseDeltaFrames THEN h.sinceClear \o InputOf(eventText)
                    ELSE IF eventText \in ToolUseOpeningFrames \/ eventText \in BoundaryFrames
                    THEN <<>>
                    ELSE h.sinceClear,
     held |-> IF eventText \in PassiveFrames THEN h.held ELSE after,
     heldBefore |-> IF eventText = ContentBlockStopFrame THEN h.held ELSE NewProcessor,
     afterPassive |-> /\ eventText = ContentBlockStopFrame
                      /\ last.op = "processEvent"
                      /\ last.eventText \in PassiveFrames,
     setter |-> LET kind == KindSetBy(eventText) IN IF kind = "keep" THEN h.setter ELSE kind,
     setterBefore |-> IF eventText = ContentBlockStopFrame THEN h.setter ELSE "null",
     toolUseSinceFence |-> IF eventText \in ToolUseSettingFrames
                           THEN TRUE
                           ELSE IF ret = ClosingFence THEN FALSE
                           ELSE h.toolUseSinceFence,
     fenceAfterToolUse |-> ret = ClosingFence => h.toolUseSinceFence]

\* the state of the conversion while the processor runs
ConvIdle ==
    /\ messages = Undefined
    /\ uploadedFiles = Undefined
    /\ base64Cache = Undefined
    /\ strandsMessages = Undefined
    /\ pc = "idle"

\* the state of convertFilesToStrandsContentBlocks while it is not called
FilesIdle ==
    /\ inputFiles = Undefined
    /\ fileIndex = 0
    /\ fileBase64Data = Undefined
    /\ fileContentBlocks = Undefined
    /\ filesPc = "idle"

\* new StrandsStreamProcessor()
Init ==
    /\ currentContentBlockType = NewProcessor.currentContentBlockType
    /\ toolUseBuffer = NewProcessor.toolUseBuffer
    /\ call = NoCall
    /\ roundTrip = NoRoundTrip
    /\ fresh = NoFresh
    /\ history = NoHistory
    /\ ConvIdle
    /\ FilesIdle

\* processor.processEvent(eventText); r is the call on the processor, f the same call
\* on the observer's newly constructed processor
ProcessEvent(eventText) ==
    \E r \in {processEvent(Self, eventText)}, f \in {processEvent(fresh.self, eventText)} :
        /\ Len(r.self.toolUseBuffer) <= MaxBuf
        /\ currentContentBlockType' = r.self.currentContentBlockType
        /\ toolUseBuffer' = r.self.toolUseBuffer
        /\ call' = [op |-> "processEvent", eventText |-> eventText, before |-> Self,
                    ret |-> r.ret, threw |-> r.threw]
        /\ roundTrip' = RoundTripStep(roundTrip, Self, eventText, r.ret)
        /\ fresh' = IF eventText \in {MessageStartFrame, MessageStopFrame}
                    THEN StartFresh(Self, r.ret)
                    ELSE IF fresh.active
                    THEN [fresh EXCEPT !.self = f.self, !.ret = f.ret]
                    ELSE fresh
        /\ history' = HistoryStep(history, call, eventText, r.self, r.ret)
        /\ UNCHANGED convVars
        /\ UNCHANGED fileVars

\* processor.reset()
Reset ==
    /\ currentContentBlockType' = reset(Self).currentContentBlockType
    /\ toolUseBuffer' = reset(Self).toolUseBuffer
    /\ call' = [op |-> "reset", eventText |-> MalformedFrame, before |-> Self,
                ret |-> Undefined, threw |-> FALSE]
    /\ roundTrip' = NoRoundTrip
    /\ fresh' = StartFresh(Self, Undefined)
    /\ history' = [NoHistory EXCEPT !.toolUseSinceFence = history.toolUseSinceFence]
    /\ UNCHANGED convVars
    /\ UNCHANGED fileVars

Next ==
    \/ \E eventText \in Frames : ProcessEvent(eventText)
    \/ Reset

Spec == Init /\ [][Next]_vars

---------------------------------------------------------------------------
(* String functions the converter uses *)

Min(S) == CHOOSE x \in S : \A y \in S : x <= y
Max(S) == CHOOSE x \in S : \A y \in S : x >= y

\* the vertical tab, U+000B
VerticalTab == ""

\* A string of the program is modelled as the sequence of its UTF-16 code units, each a
\* one-character string. A code unit that a string literal of a module cannot hold is
\* written by its number, as "<U+2028>" or "<U+0060>".

\* characters String.prototype.trim removes and the class \s matches: space, tab, line
\* feed, carriage return, form feed, vertical tab, U+00A0 (no-break space), U+1680
\* (ogham space mark), U+FEFF (byte order mark), the spaces U+2000 to U+200A, the line
\* and paragraph separators U+2028 and U+2029, U+202F, U+205F and U+3000
WhiteSpace ==
    {" ", "\t", "\n", "\r", "\f", VerticalTab, " ", " ", "﻿",
     "<U+2000>", "<U+2001>", "<U+2002>", "<U+2003>", "<U+2004>", "<U+2005>",
     "<U+2006>", "<U+2007>", "<U+2008>", "<U+2009>", "<U+200A>", "<U+2028>",
     "<U+2029>", "<U+202F>", "<U+205F>", "<U+3000>"}

\* characters the regular expression's dot does not match
LineTerminators == {"\n", "\r", "<U+2028>", "<U+2029>"}

RECURSIVE TrimStart(_)
TrimStart(s) == IF Len(s) > 0 /\ Head(s) \in WhiteSpace THEN TrimStart(Tail(s)) ELSE s

RECURSIVE TrimEnd(_)
TrimEnd(s) ==
    IF Len(s) > 0 /\ s[Len(s)] \in WhiteSpace THEN TrimEnd(SubSeq(s, 1, Len(s) - 1)) ELSE s

\* s.trim()
Trim(s) == TrimEnd(TrimStart(s))

\* String.prototype.toLowerCase follows the Unicode standard (the tables below are
\* those of version 17): every code point with a lower-case mapping is replaced by it,
\* one code point excepted that becomes two (U+0130), and the capital sigma becomes the
\* final small sigma where the standard's condition Final_Sigma holds.

\* the lower-case mapping of the code points that are one code unit
UpperToLower ==
    (("A" :> <<"a">> @@ "B" :> <<"b">> @@ "C" :> <<"c">> @@ "D" :> <<"d">> @@ "E" :> <<"e">> @@
    "F" :> <<"f">> @@ "G" :> <<"g">> @@ "H" :> <<"h">> @@ "I" :> <<"i">> @@ "J" :> <<"j">> @@
    "K" :> <<"k">> @@ "L" :> <<"l">>) @@ ("M" :> <<"m">> @@ "N" :> <<"n">> @@ "O" :> <<"o">> @@
    "P" :> <<"p">> @@ "Q" :> <<"q">> @@ "R" :> <<"r">> @@ "S" :> <<"s">> @@ "T" :> <<"t">> @@
    "U" :> <<"u">> @@ "V" :> <<"v">> @@ "W" :> <<"w">> @@ "X" :> <<"x">>) @@ ("Y" :> <<"y">> @@
    "Z" :> <<"z">> @@ "À" :> <<"à">> @@ "Á" :> <<"á">> @@ "Â" :> <<"â">> @@ "Ã" :> <<"ã">> @@
    "Ä" :> <<"ä">> @@ "Å" :> <<"å">> @@ "Æ" :> <<"æ">> @@ "Ç" :> <<"ç">> @@ "È" :> <<"è">> @@
    "É" :> <<"é">>) @@ ("Ê" :> <<"ê">> @@ "Ë" :> <<"ë">> @@ "Ì" :> <<"ì">> @@ "Í" :> <<"í">> @@
    "Î" :> <<"î">> @@ "Ï" :> <<"ï">> @@ "Ð" :> <<"ð">> @@ "Ñ" :> <<"ñ">> @@ "Ò" :> <<"ò">> @@
    "Ó" :> <<"ó">> @@ "Ô" :> <<"ô">> @@ "Õ" :> <<"õ">>) @@ ("Ö" :> <<"ö">> @@ "Ø" :> <<"ø">> @@
    "Ù" :> <<"ù">> @@ "Ú" :> <<"ú">> @@ "Û" :> <<"û">> @@ "Ü" :> <<"ü">> @@ "Ý" :> <<"ý">> @@
    "Þ" :> <<"þ">> @@ "<U+0100>" :> <<"<U+0101>">> @@ "<U+0102>" :> <<"<U+0103>">> @@ "<U+0104>"
    :> <<"<U+0105>">> @@ "<U+0106>" :> <<"<U+0107>">>) @@ ("<U+0108>" :> <<"<U+0109>">> @@
    "<U+010A>" :> <<"<U+010B>">> @@ "<U+010C>" :> <<"<U+010D>">> @@ "<U+010E>" :> <<"<U+010F>">>
    @@ "<U+0110>" :> <<"<U+0111>">> @@ "<U+0112>" :> <<"<U+0113>">> @@ "<U+0114>" :>
    <<"<U+0115>">> @@ "<U+0116>" :> <<"<U+0117>">> @@ "<U+0118>" :> <<"<U+0119>">> @@ "<U+011A>"
    :> <<"<U+011B>">> @@ "<U+011C>" :> <<"<U+011D>">> @@ "<U+011E>" :> <<"<U+011F>">>) @@
    ("<U+0120>" :> <<"<U+0121>">> @@ "<U+0122>" :> <<"<U+0123>">> @@ "<U+0124>" :>
    <<"<U+0125>">> @@ "<U+0126>" :> <<"<U+0127>">> @@ "<U+0128>" :> <<"<U+0129>">> @@ "<U+012A>"
    :> <<"<U+012B>">> @@ "<U+012C>" :> <<"<U+012D>">> @@ "<U+012E>" :> <<"<U+012F>">> @@
    "<U+0130>" :> <<"i", "<U+0307>">> @@ "<U+0132>" :> <<"<U+0133>">> @@ "<U+0134>" :>
    <<"<U+0135>">> @@ "<U+0136>" :> <<"<U+0137>">>) @@ ("<U+0139>" :> <<"<U+013A>">> @@
    "<U+013B>" :> <<"<U+013C>">> @@ "<U+013D>" :> <<"<U+013E>">> @@ "<U+013F>" :> <<"<U+0140>">>
    @@ "<U+0141>" :> <<"<U+0142>">> @@ "<U+0143>" :> <<"<U+0144>">> @@ "<U+0145>" :>
    <<"<U+0146>">> @@ "<U+0147>" :> <<"<U+0148>">> @@ "<U+014A>" :> <<"<U+014B>">> @@ "<U+014C>"
    :> <<"<U+014D>">> @@ "<U+014E>" :> <<"<U+014F>">> @@ "<U+0150>" :> <<"<U+0151>">>) @@
    ("<U+0152>" :> <<"<U+0153>">> @@ "<U+0154>" :> <<"<U+0155>">> @@ "<U+0156>" :>
    <<"<U+0157>">> @@ "<U+0158>" :> <<"<U+0159>">> @@ "<U+015A>" :> <<"<U+015B>">> @@ "<U+015C>"
    :> <<"<U+015D>">> @@ "<U+015E>" :> <<"<U+015F>">> @@ "<U+0160>" :> <<"<U+0161>">> @@
    "<U+0162>" :> <<"<U+0163>">> @@ "<U+0164>" :> <<"<U+0165>">> @@ "<U+0166>" :> <<"<U+0167>">>
    @@ "<U+0168>" :> <<"<U+0169>">>) @@ ("<U+016A>" :> <<"<U+016B>">> @@ "<U+016C>" :>
    <<"<U+016D>">> @@ "<U+016E>" :> <<"<U+016F>">> @@ "<U+0170>" :> <<"<U+0171>">> @@ "<U+0172>"
    :> <<"<U+0173>">> @@ "<U+0174>" :> <<"<U+0175>">> @@ "<U+0176>" :> <<"<U+0177>">> @@
    "<U+0178>" :> <<"ÿ">> @@ "<U+0179>" :> <<"<U+017A>">> @@ "<U+017B>" :> <<"<U+017C>">> @@
    "<U+017D>" :> <<"<U+017E>">> @@ "Ɓ" :> <<"<U+0253>">>) @@ ("Ƃ" :> <<"ƃ">> @@ "Ƅ" :> <<"ƅ">>
    @@ "Ɔ" :> <<"<U+0254>">> @@ "Ƈ" :> <<"ƈ">> @@ "Ɖ" :> <<"<U+0256>">> @@ "Ɗ" :> <<"<U+0257>">>
    @@ "Ƌ" :> <<"ƌ">> @@ "Ǝ" :> <<"ǝ">> @@ "Ə" :> <<"<U+0259>">> @@ "Ɛ" :> <<"<U+025B>">> @@ "Ƒ"
    :> <<"ƒ">> @@ "Ɠ" :> <<"<U+0260>">>) @@ ("Ɣ" :> <<"<U+0263>">> @@ "Ɩ" :> <<"<U+0269>">> @@
    "Ɨ" :> <<"<U+0268>">> @@ "Ƙ" :> <<"ƙ">> @@ "Ɯ" :> <<"<U+026F>">> @@ "Ɲ" :> <<"<U+0272>">> @@
    "Ɵ" :> <<"<U+0275>">> @@ "Ơ" :> <<"ơ">> @@ "Ƣ" :> <<"ƣ">> @@ "Ƥ" :> <<"ƥ">> @@ "Ʀ" :>
    <<"ʀ">> @@ "Ƨ" :> <<"ƨ">>)) @@ (("Ʃ" :> <<"ʃ">> @@ "Ƭ" :> <<"ƭ">> @@ "Ʈ" :> <<"ʈ">> @@ "Ư"
    :> <<"ư">> @@ "Ʊ" :> <<"ʊ">> @@ "Ʋ" :> <<"ʋ">> @@ "Ƴ" :> <<"ƴ">> @@ "Ƶ" :> <<"ƶ">> @@ "Ʒ" :>
    <<"ʒ">> @@ "Ƹ" :> <<"ƹ">> @@ "Ƽ" :> <<"ƽ">> @@ "Ǆ" :> <<"ǆ">>) @@ ("ǅ" :> <<"ǆ">> @@ "Ǉ" :>
    <<"ǉ">> @@ "ǈ" :> <<"ǉ">> @@ "Ǌ" :> <<"ǌ">> @@ "ǋ" :> <<"ǌ">> @@ "Ǎ" :> <<"ǎ">> @@ "Ǐ" :>
    <<"ǐ">> @@ "Ǒ" :> <<"ǒ">> @@ "Ǔ" :> <<"ǔ">> @@ "Ǖ" :> <<"ǖ">> @@ "Ǘ" :> <<"ǘ">> @@ "Ǚ" :>
    <<"ǚ">>) @@ ("Ǜ" :> <<"ǜ">> @@ "Ǟ" :> <<"ǟ">> @@ "Ǡ" :> <<"ǡ">> @@ "Ǣ" :> <<"ǣ">> @@ "Ǥ" :>
    <<"ǥ">> @@ "Ǧ" :> <<"ǧ">> @@ "Ǩ" :> <<"ǩ">> @@ "Ǫ" :> <<"ǫ">> @@ "Ǭ" :> <<"ǭ">> @@ "Ǯ" :>
    <<"ǯ">> @@ "Ǳ" :> <<"ǳ">> @@ "ǲ" :> <<"ǳ">>) @@ ("Ǵ" :> <<"ǵ">> @@ "Ƕ" :> <<"ƕ">> @@ "Ƿ" :>
    <<"ƿ">> @@ "Ǹ" :> <<"ǹ">> @@ "Ǻ" :> <<"ǻ">> @@ "Ǽ" :> <<"ǽ">> @@ "Ǿ" :> <<"ǿ">> @@
    "<U+0200>" :> <<"<U+0201>">> @@ "<U+0202>" :> <<"<U+0203>">> @@ "<U+0204>" :> <<"<U+0205>">>
    @@ "<U+0206>" :> <<"<U+0207>">> @@ "<U+0208>" :> <<"<U+0209>">>) @@ ("<U+020A>" :>
    <<"<U+020B>">> @@ "<U+020C>" :> <<"<U+020D>">> @@ "<U+020E>" :> <<"<U+020F>">> @@ "<U+0210>"
    :> <<"<U+0211>">> @@ "<U+0212>" :> <<"<U+0213>">> @@ "<U+0214>" :> <<"<U+0215>">> @@
    "<U+0216>" :> <<"<U+0217>">> @@ "<U+0218>" :> <<"<U+0219>">> @@ "<U+021A>" :> <<"<U+021B>">>
    @@ "<U+021C>" :> <<"<U+021D>">> @@ "<U+021E>" :> <<"<U+021F>">> @@ "<U+0220>" :> <<"ƞ">>) @@
    ("<U+0222>" :> <<"<U+0223>">> @@ "<U+0224>" :> <<"<U+0225>">> @@ "<U+0226>" :>
    <<"<U+0227>">> @@ "<U+0228>" :> <<"<U+0229>">> @@ "<U+022A>" :> <<"<U+022B>">> @@ "<U+022C>"
    :> <<"<U+022D>">> @@ "<U+022E>" :> <<"<U+022F>">> @@ "<U+0230>" :> <<"<U+0231>">> @@
    "<U+0232>" :> <<"<U+0233>">> @@ "<U+023A>" :> <<"<U+2C65>">> @@ "<U+023B>" :> <<"<U+023C>">>
    @@ "<U+023D>" :> <<"ƚ">>) @@ ("<U+023E>" :> <<"<U+2C66>">> @@ "<U+0241>" :> <<"<U+0242>">>
    @@ "<U+0243>" :> <<"ƀ">> @@ "<U+0244>" :> <<"ʉ">> @@ "<U+0245>" :> <<"ʌ">> @@ "<U+0246>" :>
    <<"<U+0247>">> @@ "<U+0248>" :> <<"<U+0249>">> @@ "<U+024A>" :> <<"<U+024B>">> @@ "<U+024C>"
    :> <<"<U+024D>">> @@ "<U+024E>" :> <<"<U+024F>">> @@ "<U+0370>" :> <<"<U+0371>">> @@
    "<U+0372>" :> <<"<U+0373>">>) @@ ("<U+0376>" :> <<"<U+0377>">> @@ "<U+037F>" :> <<"ϳ">> @@
    "Ά" :> <<"ά">> @@ "Έ" :> <<"έ">> @@ "Ή" :> <<"ή">> @@ "Ί" :> <<"ί">> @@ "Ό" :> <<"ό">> @@
    "Ύ" :> <<"ύ">> @@ "Ώ" :> <<"ώ">> @@ "Α" :> <<"α">> @@ "Β" :> <<"β">> @@ "Γ" :> <<"γ">>) @@
    ("Δ" :> <<"δ">> @@ "Ε" :> <<"ε">> @@ "Ζ" :> <<"ζ">> @@ "Η" :> <<"η">> @@ "Θ" :> <<"θ">> @@
    "Ι" :> <<"ι">> @@ "Κ" :> <<"κ">> @@ "Λ" :> <<"λ">> @@ "Μ" :> <<"μ">> @@ "Ν" :> <<"ν">> @@
    "Ξ" :> <<"ξ">> @@ "Ο" :> <<"ο">>) @@ ("Π" :> <<"π">> @@ "Ρ" :> <<"ρ">> @@ "Σ" :> <<"σ">> @@
    "Τ" :> <<"τ">> @@ "Υ" :> <<"υ">> @@ "Φ" :> <<"φ">> @@ "Χ" :> <<"χ">> @@ "Ψ" :> <<"ψ">> @@
    "Ω" :> <<"ω">> @@ "Ϊ" :> <<"ϊ">> @@ "Ϋ" :> <<"ϋ">> @@ "Ϗ" :> <<"ϗ">>) @@ ("Ϙ" :> <<"ϙ">> @@
    "Ϛ" :> <<"ϛ">> @@ "Ϝ" :> <<"ϝ">> @@ "Ϟ" :> <<"ϟ">> @@ "Ϡ" :> <<"ϡ">> @@ "Ϣ" :> <<"ϣ">> @@
    "Ϥ" :> <<"ϥ">> @@ "Ϧ" :> <<"ϧ">> @@ "Ϩ" :> <<"ϩ">> @@ "Ϫ" :> <<"ϫ">> @@ "Ϭ" :> <<"ϭ">> @@
    "Ϯ" :> <<"ϯ">>) @@ ("ϴ" :> <<"θ">> @@ "Ϸ" :> <<"ϸ">> @@ "Ϲ" :> <<"ϲ">> @@ "Ϻ" :> <<"ϻ">> @@
    "Ͻ" :> <<"<U+037B>">> @@ "Ͼ" :> <<"<U+037C>">> @@ "Ͽ" :> <<"<U+037D>">> @@ "<U+0400>" :>
    <<"<U+0450>">> @@ "<U+0401>" :> <<"<U+0451>">> @@ "<U+0402>" :> <<"<U+0452>">> @@ "<U+0403>"
    :> <<"<U+0453>">> @@ "<U+0404>" :> <<"<U+0454>">>)) @@ (("<U+0405>" :> <<"<U+0455>">> @@
    "<U+0406>" :> <<"<U+0456>">> @@ "<U+0407>" :> <<"<U+0457>">> @@ "<U+0408>" :> <<"<U+0458>">>
    @@ "<U+0409>" :> <<"<U+0459>">> @@ "<U+040A>" :> <<"<U+045A>">> @@ "<U+040B>" :>
    <<"<U+045B>">> @@ "<U+040C>" :> <<"<U+045C>">> @@ "<U+040D>" :> <<"<U+045D>">> @@ "<U+040E>"
    :> <<"<U+045E>">> @@ "<U+040F>" :> <<"<U+045F>">> @@ "<U+0410>" :> <<"<U+0430>">>) @@
    ("<U+0411>" :> <<"<U+0431>">> @@ "<U+0412>" :> <<"<U+0432>">> @@ "<U+0413>" :>
    <<"<U+0433>">> @@ "<U+0414>" :> <<"<U+0434>">> @@ "<U+0415>" :> <<"<U+0435>">> @@ "<U+0416>"
    :> <<"<U+0436>">> @@ "<U+0417>" :> <<"<U+0437>">> @@ "<U+0418>" :> <<"<U+0438>">> @@
    "<U+0419>" :> <<"<U+0439>">> @@ "<U+041A>" :> <<"<U+043A>">> @@ "<U+041B>" :> <<"<U+043B>">>
    @@ "<U+041C>" :> <<"<U+043C>">>) @@ ("<U+041D>" :> <<"<U+043D>">> @@ "<U+041E>" :>
    <<"<U+043E>">> @@ "<U+041F>" :> <<"<U+043F>">> @@ "<U+0420>" :> <<"<U+0440>">> @@ "<U+0421>"
    :> <<"<U+0441>">> @@ "<U+0422>" :> <<"<U+0442>">> @@ "<U+0423>" :> <<"<U+0443>">> @@
    "<U+0424>" :> <<"<U+0444>">> @@ "<U+0425>" :> <<"<U+0445>">> @@ "<U+0426>" :> <<"<U+0446>">>
    @@ "<U+0427>" :> <<"<U+0447>">> @@ "<U+0428>" :> <<"<U+0448>">>) @@ ("<U+0429>" :>
    <<"<U+0449>">> @@ "<U+042A>" :> <<"<U+044A>">> @@ "<U+042B>" :> <<"<U+044B>">> @@ "<U+042C>"
    :> <<"<U+044C>">> @@ "<U+042D>" :> <<"<U+044D>">> @@ "<U+042E>" :> <<"<U+044E>">> @@
    "<U+042F>" :> <<"<U+044F>">> @@ "<U+0460>" :> <<"<U+0461>">> @@ "<U+0462>" :> <<"<U+0463>">>
    @@ "<U+0464>" :> <<"<U+0465>">> @@ "<U+0466>" :> <<"<U+0467>">> @@ "<U+0468>" :>
    <<"<U+0469>">>) @@ ("<U+046A>" :> <<"<U+046B>">> @@ "<U+046C>" :> <<"<U+046D>">> @@
    "<U+046E>" :> <<"<U+046F>">> @@ "<U+0470>" :> <<"<U+0471>">> @@ "<U+0472>" :> <<"<U+0473>">>
    @@ "<U+0474>" :> <<"<U+0475>">> @@ "<U+0476>" :> <<"<U+0477>">> @@ "<U+0478>" :>
    <<"<U+0479>">> @@ "<U+047A>" :> <<"<U+047B>">> @@ "<U+047C>" :> <<"<U+047D>">> @@ "<U+047E>"
    :> <<"<U+047F>">> @@ "Ҁ" :> <<"ҁ">>) @@ ("Ҋ" :> <<"ҋ">> @@ "Ҍ" :> <<"ҍ">> @@ "Ҏ" :> <<"ҏ">>
    @@ "Ґ" :> <<"ґ">> @@ "Ғ" :> <<"ғ">> @@ "Ҕ" :> <<"ҕ">> @@ "Җ" :> <<"җ">> @@ "Ҙ" :> <<"ҙ">> @@
    "Қ" :> <<"қ">> @@ "Ҝ" :> <<"ҝ">> @@ "Ҟ" :> <<"ҟ">> @@ "Ҡ" :> <<"ҡ">>) @@ ("Ң" :> <<"ң">> @@
    "Ҥ" :> <<"ҥ">> @@ "Ҧ" :> <<"ҧ">> @@ "Ҩ" :> <<"ҩ">> @@ "Ҫ" :> <<"ҫ">> @@ "Ҭ" :> <<"ҭ">> @@
    "Ү" :> <<"ү">> @@ "Ұ" :> <<"ұ">> @@ "Ҳ" :> <<"ҳ">> @@ "Ҵ" :> <<"ҵ">> @@ "Ҷ" :> <<"ҷ">> @@
    "Ҹ" :> <<"ҹ">>) @@ ("Һ" :> <<"һ">> @@ "Ҽ" :> <<"ҽ">> @@ "Ҿ" :> <<"ҿ">> @@ "Ӏ" :> <<"ӏ">> @@
    "Ӂ" :> <<"ӂ">> @@ "Ӄ" :> <<"ӄ">> @@ "Ӆ" :> <<"ӆ">> @@ "Ӈ" :> <<"ӈ">> @@ "Ӊ" :> <<"ӊ">> @@
    "Ӌ" :> <<"ӌ">> @@ "Ӎ" :> <<"ӎ">> @@ "Ӑ" :> <<"ӑ">>) @@ ("Ӓ" :> <<"ӓ">> @@ "Ӕ" :> <<"ӕ">> @@
    "Ӗ" :> <<"ӗ">> @@ "Ә" :> <<"ә">> @@ "Ӛ" :> <<"ӛ">> @@ "Ӝ" :> <<"ӝ">> @@ "Ӟ" :> <<"ӟ">> @@
    "Ӡ" :> <<"ӡ">> @@ "Ӣ" :> <<"ӣ">> @@ "Ӥ" :> <<"ӥ">> @@ "Ӧ" :> <<"ӧ">> @@ "Ө" :> <<"ө">>) @@
    ("Ӫ" :> <<"ӫ">> @@ "Ӭ" :> <<"ӭ">> @@ "Ӯ" :> <<"ӯ">> @@ "Ӱ" :> <<"ӱ">> @@ "Ӳ" :> <<"ӳ">> @@
    "Ӵ" :> <<"ӵ">> @@ "Ӷ" :> <<"ӷ">> @@ "Ӹ" :> <<"ӹ">> @@ "Ӻ" :> <<"ӻ">> @@ "Ӽ" :> <<"ӽ">> @@
    "Ӿ" :> <<"ӿ">> @@ "<U+0500>" :> <<"<U+0501>">>) @@ ("<U+0502>" :> <<"<U+0503>">> @@
    "<U+0504>" :> <<"<U+0505>">> @@ "<U+0506>" :> <<"<U+0507>">> @@ "<U+0508>" :> <<"<U+0509>">>
    @@ "<U+050A>" :> <<"<U+050B>">> @@ "<U+050C>" :> <<"<U+050D>">> @@ "<U+050E>" :>
    <<"<U+050F>">> @@ "<U+0510>" :> <<"<U+0511>">> @@ "<U+0512>" :> <<"<U+0513>">> @@ "<U+0514>"
    :> <<"<U+0515>">> @@ "<U+0516>" :> <<"<U+0517>">> @@ "<U+0518>" :> <<"<U+0519>">>) @@
    ("<U+051A>" :> <<"<U+051B>">> @@ "<U+051C>" :> <<"<U+051D>">> @@ "<U+051E>" :>
    <<"<U+051F>">> @@ "<U+0520>" :> <<"<U+0521>">> @@ "<U+0522>" :> <<"<U+0523>">> @@ "<U+0524>"
    :> <<"<U+0525>">> @@ "<U+0526>" :> <<"<U+0527>">> @@ "<U+0528>" :> <<"<U+0529>">> @@
    "<U+052A>" :> <<"<U+052B>">> @@ "<U+052C>" :> <<"<U+052D>">> @@ "<U+052E>" :> <<"<U+052F>">>
    @@ "<U+0531>" :> <<"<U+0561>">>)) @@ (("<U+0532>" :> <<"<U+0562>">> @@ "<U+0533>" :>
    <<"<U+0563>">> @@ "<U+0534>" :> <<"<U+0564>">> @@ "<U+0535>" :> <<"<U+0565>">> @@ "<U+0536>"
    :> <<"<U+0566>">> @@ "<U+0537>" :> <<"<U+0567>">> @@ "<U+0538>" :> <<"<U+0568>">> @@
    "<U+0539>" :> <<"<U+0569>">> @@ "<U+053A>" :> <<"<U+056A>">> @@ "<U+053B>" :> <<"<U+056B>">>
    @@ "<U+053C>" :> <<"<U+056C>">> @@ "<U+053D>" :> <<"<U+056D>">>) @@ ("<U+053E>" :>
    <<"<U+056E>">> @@ "<U+053F>" :> <<"<U+056F>">> @@ "<U+0540>" :> <<"<U+0570>">> @@ "<U+0541>"
    :> <<"<U+0571>">> @@ "<U+0542>" :> <<"<U+0572>">> @@ "<U+0543>" :> <<"<U+0573>">> @@
    "<U+0544>" :> <<"<U+0574>">> @@ "<U+0545>" :> <<"<U+0575>">> @@ "<U+0546>" :> <<"<U+0576>">>
    @@ "<U+0547>" :> <<"<U+0577>">> @@ "<U+0548>" :> <<"<U+0578>">> @@ "<U+0549>" :>
    <<"<U+0579>">>) @@ ("<U+054A>" :> <<"<U+057A>">> @@ "<U+054B>" :> <<"<U+057B>">> @@
    "<U+054C>" :> <<"<U+057C>">> @@ "<U+054D>" :> <<"<U+057D>">> @@ "<U+054E>" :> <<"<U+057E>">>
    @@ "<U+054F>" :> <<"<U+057F>">> @@ "<U+0550>" :> <<"ր">> @@ "<U+0551>" :> <<"ց">> @@
    "<U+0552>" :> <<"ւ">> @@ "<U+0553>" :> <<"փ">> @@ "<U+0554>" :> <<"ք">> @@ "<U+0555>" :>
    <<"օ">>) @@ ("<U+0556>" :> <<"ֆ">> @@ "Ⴀ" :> <<"<U+2D00>">> @@ "Ⴁ" :> <<"<U+2D01>">> @@ "Ⴂ"
    :> <<"<U+2D02>">> @@ "Ⴃ" :> <<"<U+2D03>">> @@ "Ⴄ" :> <<"<U+2D04>">> @@ "Ⴅ" :> <<"<U+2D05>">>
    @@ "Ⴆ" :> <<"<U+2D06>">> @@ "Ⴇ" :> <<"<U+2D07>">> @@ "Ⴈ" :> <<"<U+2D08>">> @@ "Ⴉ" :>
    <<"<U+2D09>">> @@ "Ⴊ" :> <<"<U+2D0A>">>) @@ ("Ⴋ" :> <<"<U+2D0B>">> @@ "Ⴌ" :> <<"<U+2D0C>">>
    @@ "Ⴍ" :> <<"<U+2D0D>">> @@ "Ⴎ" :> <<"<U+2D0E>">> @@ "Ⴏ" :> <<"<U+2D0F>">> @@ "Ⴐ" :>
    <<"<U+2D10>">> @@ "Ⴑ" :> <<"<U+2D11>">> @@ "Ⴒ" :> <<"<U+2D12>">> @@ "Ⴓ" :> <<"<U+2D13>">> @@
    "Ⴔ" :> <<"<U+2D14>">> @@ "Ⴕ" :> <<"<U+2D15>">> @@ "Ⴖ" :> <<"<U+2D16>">>) @@ ("Ⴗ" :>
    <<"<U+2D17>">> @@ "Ⴘ" :> <<"<U+2D18>">> @@ "Ⴙ" :> <<"<U+2D19>">> @@ "Ⴚ" :> <<"<U+2D1A>">> @@
    "Ⴛ" :> <<"<U+2D1B>">> @@ "Ⴜ" :> <<"<U+2D1C>">> @@ "Ⴝ" :> <<"<U+2D1D>">> @@ "Ⴞ" :>
    <<"<U+2D1E>">> @@ "Ⴟ" :> <<"<U+2D1F>">> @@ "Ⴠ" :> <<"<U+2D20>">> @@ "Ⴡ" :> <<"<U+2D21>">> @@
    "Ⴢ" :> <<"<U+2D22>">>) @@ ("Ⴣ" :> <<"<U+2D23>">> @@ "Ⴤ" :> <<"<U+2D24>">> @@ "Ⴥ" :>
    <<"<U+2D25>">> @@ "Ⴧ" :> <<"<U+2D27>">> @@ "Ⴭ" :> <<"<U+2D2D>">> @@ "Ꭰ" :> <<"<U+AB70>">> @@
    "Ꭱ" :> <<"<U+AB71>">> @@ "Ꭲ" :> <<"<U+AB72>">> @@ "Ꭳ" :> <<"<U+AB73>">> @@ "Ꭴ" :>
    <<"<U+AB74>">> @@ "Ꭵ" :> <<"<U+AB75>">> @@ "Ꭶ" :> <<"<U+AB76>">>) @@ ("Ꭷ" :> <<"<U+AB77>">>
    @@ "Ꭸ" :> <<"<U+AB78>">> @@ "Ꭹ" :> <<"<U+AB79>">> @@ "Ꭺ" :> <<"<U+AB7A>">> @@ "Ꭻ" :>
    <<"<U+AB7B>">> @@ "Ꭼ" :> <<"<U+AB7C>">> @@ "Ꭽ" :> <<"<U+AB7D>">> @@ "Ꭾ" :> <<"<U+AB7E>">> @@
    "Ꭿ" :> <<"<U+AB7F>">> @@ "Ꮀ" :> <<"ꮀ">> @@ "Ꮁ" :> <<"ꮁ">> @@ "Ꮂ" :> <<"ꮂ">>) @@ ("Ꮃ" :>
    <<"ꮃ">> @@ "Ꮄ" :> <<"ꮄ">> @@ "Ꮅ" :> <<"ꮅ">> @@ "Ꮆ" :> <<"ꮆ">> @@ "Ꮇ" :> <<"ꮇ">> @@ "Ꮈ" :>
    <<"ꮈ">> @@ "Ꮉ" :> <<"ꮉ">> @@ "Ꮊ" :> <<"ꮊ">> @@ "Ꮋ" :> <<"ꮋ">> @@ "Ꮌ" :> <<"ꮌ">> @@ "Ꮍ" :>
    <<"ꮍ">> @@ "Ꮎ" :> <<"ꮎ">>) @@ ("Ꮏ" :> <<"ꮏ">> @@ "Ꮐ" :> <<"ꮐ">> @@ "Ꮑ" :> <<"ꮑ">> @@ "Ꮒ" :>
    <<"ꮒ">> @@ "Ꮓ" :> <<"ꮓ">> @@ "Ꮔ" :> <<"ꮔ">> @@ "Ꮕ" :> <<"ꮕ">> @@ "Ꮖ" :> <<"ꮖ">> @@ "Ꮗ" :>
    <<"ꮗ">> @@ "Ꮘ" :> <<"ꮘ">> @@ "Ꮙ" :> <<"ꮙ">> @@ "Ꮚ" :> <<"ꮚ">>) @@ ("Ꮛ" :> <<"ꮛ">> @@ "Ꮜ" :>
    <<"ꮜ">> @@ "Ꮝ" :> <<"ꮝ">> @@ "Ꮞ" :> <<"ꮞ">> @@ "Ꮟ" :> <<"ꮟ">> @@ "Ꮠ" :> <<"ꮠ">> @@ "Ꮡ" :>
    <<"ꮡ">> @@ "Ꮢ" :> <<"ꮢ">> @@ "Ꮣ" :> <<"ꮣ">> @@ "Ꮤ" :> <<"ꮤ">> @@ "Ꮥ" :> <<"ꮥ">> @@ "Ꮦ" :>
    <<"ꮦ">>) @@ ("Ꮧ" :> <<"ꮧ">> @@ "Ꮨ" :> <<"ꮨ">> @@ "Ꮩ" :> <<"ꮩ">> @@ "Ꮪ" :> <<"ꮪ">> @@ "Ꮫ" :>
    <<"ꮫ">> @@ "Ꮬ" :> <<"ꮬ">> @@ "Ꮭ" :> <<"ꮭ">> @@ "Ꮮ" :> <<"ꮮ">> @@ "Ꮯ" :> <<"ꮯ">> @@ "Ꮰ" :>
    <<"ꮰ">> @@ "Ꮱ" :> <<"ꮱ">> @@ "Ꮲ" :> <<"ꮲ">>)) @@ (("Ꮳ" :> <<"ꮳ">> @@ "Ꮴ" :> <<"ꮴ">> @@ "Ꮵ"
    :> <<"ꮵ">> @@ "Ꮶ" :> <<"ꮶ">> @@ "Ꮷ" :> <<"ꮷ">> @@ "Ꮸ" :> <<"ꮸ">> @@ "Ꮹ" :> <<"ꮹ">> @@ "Ꮺ" :>
    <<"ꮺ">> @@ "Ꮻ" :> <<"ꮻ">> @@ "Ꮼ" :> <<"ꮼ">> @@ "Ꮽ" :> <<"ꮽ">> @@ "Ꮾ" :> <<"ꮾ">>) @@ ("Ꮿ" :>
    <<"ꮿ">> @@ "Ᏸ" :> <<"ᏸ">> @@ "Ᏹ" :> <<"ᏹ">> @@ "Ᏺ" :> <<"ᏺ">> @@ "Ᏻ" :> <<"ᏻ">> @@ "Ᏼ" :>
    <<"ᏼ">> @@ "Ᏽ" :> <<"ᏽ">> @@ "<U+1C89>" :> <<"<U+1C8A>">> @@ "Ა" :> <<"ა">> @@ "Ბ" :>
    <<"ბ">> @@ "Გ" :> <<"გ">> @@ "Დ" :> <<"დ">>) @@ ("Ე" :> <<"ე">> @@ "Ვ" :> <<"ვ">> @@ "Ზ" :>
    <<"ზ">> @@ "Თ" :> <<"თ">> @@ "Ი" :> <<"ი">> @@ "Კ" :> <<"კ">> @@ "Ლ" :> <<"ლ">> @@ "Მ" :>
    <<"მ">> @@ "Ნ" :> <<"ნ">> @@ "Ო" :> <<"ო">> @@ "Პ" :> <<"პ">> @@ "Ჟ" :> <<"ჟ">>) @@ ("Რ" :>
    <<"რ">> @@ "Ს" :> <<"ს">> @@ "Ტ" :> <<"ტ">> @@ "Უ" :> <<"უ">> @@ "Ფ" :> <<"ფ">> @@ "Ქ" :>
    <<"ქ">> @@ "Ღ" :> <<"ღ">> @@ "Ყ" :> <<"ყ">> @@ "Შ" :> <<"შ">> @@ "Ჩ" :> <<"ჩ">> @@ "Ც" :>
    <<"ც">> @@ "Ძ" :> <<"ძ">>) @@ ("Წ" :> <<"წ">> @@ "Ჭ" :> <<"ჭ">> @@ "Ხ" :> <<"ხ">> @@ "Ჯ" :>
    <<"ჯ">> @@ "Ჰ" :> <<"ჰ">> @@ "Ჱ" :> <<"ჱ">> @@ "Ჲ" :> <<"ჲ">> @@ "Ჳ" :> <<"ჳ">> @@ "Ჴ" :>
    <<"ჴ">> @@ "Ჵ" :> <<"ჵ">> @@ "Ჶ" :> <<"ჶ">> @@ "Ჷ" :> <<"ჷ">>) @@ ("Ჸ" :> <<"ჸ">> @@ "Ჹ" :>
    <<"ჹ">> @@ "Ჺ" :> <<"ჺ">> @@ "Ჽ" :> <<"ჽ">> @@ "Ჾ" :> <<"ჾ">> @@ "Ჿ" :> <<"ჿ">> @@
    "<U+1E00>" :> <<"<U+1E01>">> @@ "<U+1E02>" :> <<"<U+1E03>">> @@ "<U+1E04>" :> <<"<U+1E05>">>
    @@ "<U+1E06>" :> <<"<U+1E07>">> @@ "<U+1E08>" :> <<"<U+1E09>">> @@ "<U+1E0A>" :>
    <<"<U+1E0B>">>) @@ ("<U+1E0C>" :> <<"<U+1E0D>">> @@ "<U+1E0E>" :> <<"<U+1E0F>">> @@
    "<U+1E10>" :> <<"<U+1E11>">> @@ "<U+1E12>" :> <<"<U+1E13>">> @@ "<U+1E14>" :> <<"<U+1E15>">>
    @@ "<U+1E16>" :> <<"<U+1E17>">> @@ "<U+1E18>" :> <<"<U+1E19>">> @@ "<U+1E1A>" :>
    <<"<U+1E1B>">> @@ "<U+1E1C>" :> <<"<U+1E1D>">> @@ "<U+1E1E>" :> <<"<U+1E1F>">> @@ "<U+1E20>"
    :> <<"<U+1E21>">> @@ "<U+1E22>" :> <<"<U+1E23>">>) @@ ("<U+1E24>" :> <<"<U+1E25>">> @@
    "<U+1E26>" :> <<"<U+1E27>">> @@ "<U+1E28>" :> <<"<U+1E29>">> @@ "<U+1E2A>" :> <<"<U+1E2B>">>
    @@ "<U+1E2C>" :> <<"<U+1E2D>">> @@ "<U+1E2E>" :> <<"<U+1E2F>">> @@ "<U+1E30>" :>
    <<"<U+1E31>">> @@ "<U+1E32>" :> <<"<U+1E33>">> @@ "<U+1E34>" :> <<"<U+1E35>">> @@ "<U+1E36>"
    :> <<"<U+1E37>">> @@ "<U+1E38>" :> <<"<U+1E39>">> @@ "<U+1E3A>" :> <<"<U+1E3B>">>) @@
    ("<U+1E3C>" :> <<"<U+1E3D>">> @@ "<U+1E3E>" :> <<"<U+1E3F>">> @@ "<U+1E40>" :>
    <<"<U+1E41>">> @@ "<U+1E42>" :> <<"<U+1E43>">> @@ "<U+1E44>" :> <<"<U+1E45>">> @@ "<U+1E46>"
    :> <<"<U+1E47>">> @@ "<U+1E48>" :> <<"<U+1E49>">> @@ "<U+1E4A>" :> <<"<U+1E4B>">> @@
    "<U+1E4C>" :> <<"<U+1E4D>">> @@ "<U+1E4E>" :> <<"<U+1E4F>">> @@ "<U+1E50>" :> <<"<U+1E51>">>
    @@ "<U+1E52>" :> <<"<U+1E53>">>) @@ ("<U+1E54>" :> <<"<U+1E55>">> @@ "<U+1E56>" :>
    <<"<U+1E57>">> @@ "<U+1E58>" :> <<"<U+1E59>">> @@ "<U+1E5A>" :> <<"<U+1E5B>">> @@ "<U+1E5C>"
    :> <<"<U+1E5D>">> @@ "<U+1E5E>" :> <<"<U+1E5F>">> @@ "<U+1E60>" :> <<"<U+1E61>">> @@
    "<U+1E62>" :> <<"<U+1E63>">> @@ "<U+1E64>" :> <<"<U+1E65>">> @@ "<U+1E66>" :> <<"<U+1E67>">>
    @@ "<U+1E68>" :> <<"<U+1E69>">> @@ "<U+1E6A>" :> <<"<U+1E6B>">>) @@ ("<U+1E6C>" :>
    <<"<U+1E6D>">> @@ "<U+1E6E>" :> <<"<U+1E6F>">> @@ "<U+1E70>" :> <<"<U+1E71>">> @@ "<U+1E72>"
    :> <<"<U+1E73>">> @@ "<U+1E74>" :> <<"<U+1E75>">> @@ "<U+1E76>" :> <<"<U+1E77>">> @@
    "<U+1E78>" :> <<"<U+1E79>">> @@ "<U+1E7A>" :> <<"<U+1E7B>">> @@ "<U+1E7C>" :> <<"<U+1E7D>">>
    @@ "<U+1E7E>" :> <<"<U+1E7F>">> @@ "Ẁ" :> <<"ẁ">> @@ "Ẃ" :> <<"ẃ">>) @@ ("Ẅ" :> <<"ẅ">> @@
    "Ẇ" :> <<"ẇ">> @@ "Ẉ" :> <<"ẉ">> @@ "Ẋ" :> <<"ẋ">> @@ "Ẍ" :> <<"ẍ">> @@ "Ẏ" :> <<"ẏ">> @@
    "Ẑ" :> <<"ẑ">> @@ "Ẓ" :> <<"ẓ">> @@ "Ẕ" :> <<"ẕ">> @@ "ẞ" :> <<"ß">> @@ "Ạ" :> <<"ạ">> @@
    "Ả" :> <<"ả">>)) @@ (("Ấ" :> <<"ấ">> @@ "Ầ" :> <<"ầ">> @@ "Ẩ" :> <<"ẩ">> @@ "Ẫ" :> <<"ẫ">>
    @@ "Ậ" :> <<"ậ">> @@ "Ắ" :> <<"ắ">> @@ "Ằ" :> <<"ằ">> @@ "Ẳ" :> <<"ẳ">> @@ "Ẵ" :> <<"ẵ">> @@
    "Ặ" :> <<"ặ">> @@ "Ẹ" :> <<"ẹ">> @@ "Ẻ" :> <<"ẻ">>) @@ ("Ẽ" :> <<"ẽ">> @@ "Ế" :> <<"ế">> @@
    "Ề" :> <<"ề">> @@ "Ể" :> <<"ể">> @@ "Ễ" :> <<"ễ">> @@ "Ệ" :> <<"ệ">> @@ "Ỉ" :> <<"ỉ">> @@
    "Ị" :> <<"ị">> @@ "Ọ" :> <<"ọ">> @@ "Ỏ" :> <<"ỏ">> @@ "Ố" :> <<"ố">> @@ "Ồ" :> <<"ồ">>) @@
    ("Ổ" :> <<"ổ">> @@ "Ỗ" :> <<"ỗ">> @@ "Ộ" :> <<"ộ">> @@ "Ớ" :> <<"ớ">> @@ "Ờ" :> <<"ờ">> @@
    "Ở" :> <<"ở">> @@ "Ỡ" :> <<"ỡ">> @@ "Ợ" :> <<"ợ">> @@ "Ụ" :> <<"ụ">> @@ "Ủ" :> <<"ủ">> @@
    "Ứ" :> <<"ứ">> @@ "Ừ" :> <<"ừ">>) @@ ("Ử" :> <<"ử">> @@ "Ữ" :> <<"ữ">> @@ "Ự" :> <<"ự">> @@
    "Ỳ" :> <<"ỳ">> @@ "Ỵ" :> <<"ỵ">> @@ "Ỷ" :> <<"ỷ">> @@ "Ỹ" :> <<"ỹ">> @@ "Ỻ" :> <<"ỻ">> @@
    "Ỽ" :> <<"ỽ">> @@ "Ỿ" :> <<"ỿ">> @@ "<U+1F08>" :> <<"<U+1F00>">> @@ "<U+1F09>" :>
    <<"<U+1F01>">>) @@ ("<U+1F0A>" :> <<"<U+1F02>">> @@ "<U+1F0B>" :> <<"<U+1F03>">> @@
    "<U+1F0C>" :> <<"<U+1F04>">> @@ "<U+1F0D>" :> <<"<U+1F05>">> @@ "<U+1F0E>" :> <<"<U+1F06>">>
    @@ "<U+1F0F>" :> <<"<U+1F07>">> @@ "<U+1F18>" :> <<"<U+1F10>">> @@ "<U+1F19>" :>
    <<"<U+1F11>">> @@ "<U+1F1A>" :> <<"<U+1F12>">> @@ "<U+1F1B>" :> <<"<U+1F13>">> @@ "<U+1F1C>"
    :> <<"<U+1F14>">> @@ "<U+1F1D>" :> <<"<U+1F15>">>) @@ ("<U+1F28>" :> <<"<U+1F20>">> @@
    "<U+1F29>" :> <<"<U+1F21>">> @@ "<U+1F2A>" :> <<"<U+1F22>">> @@ "<U+1F2B>" :> <<"<U+1F23>">>
    @@ "<U+1F2C>" :> <<"<U+1F24>">> @@ "<U+1F2D>" :> <<"<U+1F25>">> @@ "<U+1F2E>" :>
    <<"<U+1F26>">> @@ "<U+1F2F>" :> <<"<U+1F27>">> @@ "<U+1F38>" :> <<"<U+1F30>">> @@ "<U+1F39>"
    :> <<"<U+1F31>">> @@ "<U+1F3A>" :> <<"<U+1F32>">> @@ "<U+1F3B>" :> <<"<U+1F33>">>) @@
    ("<U+1F3C>" :> <<"<U+1F34>">> @@ "<U+1F3D>" :> <<"<U+1F35>">> @@ "<U+1F3E>" :>
    <<"<U+1F36>">> @@ "<U+1F3F>" :> <<"<U+1F37>">> @@ "<U+1F48>" :> <<"<U+1F40>">> @@ "<U+1F49>"
    :> <<"<U+1F41>">> @@ "<U+1F4A>" :> <<"<U+1F42>">> @@ "<U+1F4B>" :> <<"<U+1F43>">> @@
    "<U+1F4C>" :> <<"<U+1F44>">> @@ "<U+1F4D>" :> <<"<U+1F45>">> @@ "<U+1F59>" :> <<"<U+1F51>">>
    @@ "<U+1F5B>" :> <<"<U+1F53>">>) @@ ("<U+1F5D>" :> <<"<U+1F55>">> @@ "<U+1F5F>" :>
    <<"<U+1F57>">> @@ "<U+1F68>" :> <<"<U+1F60>">> @@ "<U+1F69>" :> <<"<U+1F61>">> @@ "<U+1F6A>"
    :> <<"<U+1F62>">> @@ "<U+1F6B>" :> <<"<U+1F63>">> @@ "<U+1F6C>" :> <<"<U+1F64>">> @@
    "<U+1F6D>" :> <<"<U+1F65>">> @@ "<U+1F6E>" :> <<"<U+1F66>">> @@ "<U+1F6F>" :> <<"<U+1F67>">>
    @@ "ᾈ" :> <<"ᾀ">> @@ "ᾉ" :> <<"ᾁ">>) @@ ("ᾊ" :> <<"ᾂ">> @@ "ᾋ" :> <<"ᾃ">> @@ "ᾌ" :> <<"ᾄ">>
    @@ "ᾍ" :> <<"ᾅ">> @@ "ᾎ" :> <<"ᾆ">> @@ "ᾏ" :> <<"ᾇ">> @@ "ᾘ" :> <<"ᾐ">> @@ "ᾙ" :> <<"ᾑ">> @@
    "ᾚ" :> <<"ᾒ">> @@ "ᾛ" :> <<"ᾓ">> @@ "ᾜ" :> <<"ᾔ">> @@ "ᾝ" :> <<"ᾕ">>) @@ ("ᾞ" :> <<"ᾖ">> @@
    "ᾟ" :> <<"ᾗ">> @@ "ᾨ" :> <<"ᾠ">> @@ "ᾩ" :> <<"ᾡ">> @@ "ᾪ" :> <<"ᾢ">> @@ "ᾫ" :> <<"ᾣ">> @@
    "ᾬ" :> <<"ᾤ">> @@ "ᾭ" :> <<"ᾥ">> @@ "ᾮ" :> <<"ᾦ">> @@ "ᾯ" :> <<"ᾧ">> @@ "Ᾰ" :> <<"ᾰ">> @@
    "Ᾱ" :> <<"ᾱ">>) @@ ("Ὰ" :> <<"<U+1F70>">> @@ "Ά" :> <<"<U+1F71>">> @@ "ᾼ" :> <<"ᾳ">> @@ "Ὲ"
    :> <<"<U+1F72>">> @@ "Έ" :> <<"<U+1F73>">> @@ "Ὴ" :> <<"<U+1F74>">> @@ "Ή" :> <<"<U+1F75>">>
    @@ "ῌ" :> <<"ῃ">> @@ "Ῐ" :> <<"ῐ">> @@ "Ῑ" :> <<"ῑ">> @@ "Ὶ" :> <<"<U+1F76>">> @@ "Ί" :>
    <<"<U+1F77>">>) @@ ("Ῠ" :> <<"ῠ">> @@ "Ῡ" :> <<"ῡ">> @@ "Ὺ" :> <<"<U+1F7A>">> @@ "Ύ" :>
    <<"<U+1F7B>">> @@ "Ῥ" :> <<"ῥ">> @@ "Ὸ" :> <<"<U+1F78>">> @@ "Ό" :> <<"<U+1F79>">> @@ "Ὼ" :>
    <<"<U+1F7C>">> @@ "Ώ" :> <<"<U+1F7D>">> @@ "ῼ" :> <<"ῳ">> @@ "<U+2126>" :> <<"ω">> @@
    "<U+212A>" :> <<"k">>)) @@ (("<U+212B>" :> <<"å">> @@ "<U+2132>" :> <<"<U+214E>">> @@
    "<U+2160>" :> <<"<U+2170>">> @@ "<U+2161>" :> <<"<U+2171>">> @@ "<U+2162>" :> <<"<U+2172>">>
    @@ "<U+2163>" :> <<"<U+2173>">> @@ "<U+2164>" :> <<"<U+2174>">> @@ "<U+2165>" :>
    <<"<U+2175>">> @@ "<U+2166>" :> <<"<U+2176>">> @@ "<U+2167>" :> <<"<U+2177>">> @@ "<U+2168>"
    :> <<"<U+2178>">> @@ "<U+2169>" :> <<"<U+2179>">>) @@ ("<U+216A>" :> <<"<U+217A>">> @@
    "<U+216B>" :> <<"<U+217B>">> @@ "<U+216C>" :> <<"<U+217C>">> @@ "<U+216D>" :> <<"<U+217D>">>
    @@ "<U+216E>" :> <<"<U+217E>">> @@ "<U+216F>" :> <<"<U+217F>">> @@ "Ↄ" :> <<"ↄ">> @@ "Ⓐ" :>
    <<"ⓐ">> @@ "Ⓑ" :> <<"ⓑ">> @@ "Ⓒ" :> <<"ⓒ">> @@ "Ⓓ" :> <<"ⓓ">> @@ "Ⓔ" :> <<"ⓔ">>) @@ ("Ⓕ" :>
    <<"ⓕ">> @@ "Ⓖ" :> <<"ⓖ">> @@ "Ⓗ" :> <<"ⓗ">> @@ "Ⓘ" :> <<"ⓘ">> @@ "Ⓙ" :> <<"ⓙ">> @@ "Ⓚ" :>
    <<"ⓚ">> @@ "Ⓛ" :> <<"ⓛ">> @@ "Ⓜ" :> <<"ⓜ">> @@ "Ⓝ" :> <<"ⓝ">> @@ "Ⓞ" :> <<"ⓞ">> @@ "Ⓟ" :>
    <<"ⓟ">> @@ "Ⓠ" :> <<"ⓠ">>) @@ ("Ⓡ" :> <<"ⓡ">> @@ "Ⓢ" :> <<"ⓢ">> @@ "Ⓣ" :> <<"ⓣ">> @@ "Ⓤ" :>
    <<"ⓤ">> @@ "Ⓥ" :> <<"ⓥ">> @@ "Ⓦ" :> <<"ⓦ">> @@ "Ⓧ" :> <<"ⓧ">> @@ "Ⓨ" :> <<"ⓨ">> @@ "Ⓩ" :>
    <<"ⓩ">> @@ "<U+2C00>" :> <<"<U+2C30>">> @@ "<U+2C01>" :> <<"<U+2C31>">> @@ "<U+2C02>" :>
    <<"<U+2C32>">>) @@ ("<U+2C03>" :> <<"<U+2C33>">> @@ "<U+2C04>" :> <<"<U+2C34>">> @@
    "<U+2C05>" :> <<"<U+2C35>">> @@ "<U+2C06>" :> <<"<U+2C36>">> @@ "<U+2C07>" :> <<"<U+2C37>">>
    @@ "<U+2C08>" :> <<"<U+2C38>">> @@ "<U+2C09>" :> <<"<U+2C39>">> @@ "<U+2C0A>" :>
    <<"<U+2C3A>">> @@ "<U+2C0B>" :> <<"<U+2C3B>">> @@ "<U+2C0C>" :> <<"<U+2C3C>">> @@ "<U+2C0D>"
    :> <<"<U+2C3D>">> @@ "<U+2C0E>" :> <<"<U+2C3E>">>) @@ ("<U+2C0F>" :> <<"<U+2C3F>">> @@
    "<U+2C10>" :> <<"<U+2C40>">> @@ "<U+2C11>" :> <<"<U+2C41>">> @@ "<U+2C12>" :> <<"<U+2C42>">>
    @@ "<U+2C13>" :> <<"<U+2C43>">> @@ "<U+2C14>" :> <<"<U+2C44>">> @@ "<U+2C15>" :>
    <<"<U+2C45>">> @@ "<U+2C16>" :> <<"<U+2C46>">> @@ "<U+2C17>" :> <<"<U+2C47>">> @@ "<U+2C18>"
    :> <<"<U+2C48>">> @@ "<U+2C19>" :> <<"<U+2C49>">> @@ "<U+2C1A>" :> <<"<U+2C4A>">>) @@
    ("<U+2C1B>" :> <<"<U+2C4B>">> @@ "<U+2C1C>" :> <<"<U+2C4C>">> @@ "<U+2C1D>" :>
    <<"<U+2C4D>">> @@ "<U+2C1E>" :> <<"<U+2C4E>">> @@ "<U+2C1F>" :> <<"<U+2C4F>">> @@ "<U+2C20>"
    :> <<"<U+2C50>">> @@ "<U+2C21>" :> <<"<U+2C51>">> @@ "<U+2C22>" :> <<"<U+2C52>">> @@
    "<U+2C23>" :> <<"<U+2C53>">> @@ "<U+2C24>" :> <<"<U+2C54>">> @@ "<U+2C25>" :> <<"<U+2C55>">>
    @@ "<U+2C26>" :> <<"<U+2C56>">>) @@ ("<U+2C27>" :> <<"<U+2C57>">> @@ "<U+2C28>" :>
    <<"<U+2C58>">> @@ "<U+2C29>" :> <<"<U+2C59>">> @@ "<U+2C2A>" :> <<"<U+2C5A>">> @@ "<U+2C2B>"
    :> <<"<U+2C5B>">> @@ "<U+2C2C>" :> <<"<U+2C5C>">> @@ "<U+2C2D>" :> <<"<U+2C5D>">> @@
    "<U+2C2E>" :> <<"<U+2C5E>">> @@ "<U+2C2F>" :> <<"<U+2C5F>">> @@ "<U+2C60>" :> <<"<U+2C61>">>
    @@ "<U+2C62>" :> <<"<U+026B>">> @@ "<U+2C63>" :> <<"<U+1D7D>">>) @@ ("<U+2C64>" :>
    <<"<U+027D>">> @@ "<U+2C67>" :> <<"<U+2C68>">> @@ "<U+2C69>" :> <<"<U+2C6A>">> @@ "<U+2C6B>"
    :> <<"<U+2C6C>">> @@ "<U+2C6D>" :> <<"<U+0251>">> @@ "<U+2C6E>" :> <<"<U+0271>">> @@
    "<U+2C6F>" :> <<"<U+0250>">> @@ "<U+2C70>" :> <<"<U+0252>">> @@ "<U+2C72>" :> <<"<U+2C73>">>
    @@ "<U+2C75>" :> <<"<U+2C76>">> @@ "<U+2C7E>" :> <<"<U+023F>">> @@ "<U+2C7F>" :>
    <<"<U+0240>">>) @@ ("Ⲁ" :> <<"ⲁ">> @@ "Ⲃ" :> <<"ⲃ">> @@ "Ⲅ" :> <<"ⲅ">> @@ "Ⲇ" :> <<"ⲇ">> @@
    "Ⲉ" :> <<"ⲉ">> @@ "Ⲋ" :> <<"ⲋ">> @@ "Ⲍ" :> <<"ⲍ">> @@ "Ⲏ" :> <<"ⲏ">> @@ "Ⲑ" :> <<"ⲑ">> @@
    "Ⲓ" :> <<"ⲓ">> @@ "Ⲕ" :> <<"ⲕ">> @@ "Ⲗ" :> <<"ⲗ">>) @@ ("Ⲙ" :> <<"ⲙ">> @@ "Ⲛ" :> <<"ⲛ">> @@
    "Ⲝ" :> <<"ⲝ">> @@ "Ⲟ" :> <<"ⲟ">> @@ "Ⲡ" :> <<"ⲡ">> @@ "Ⲣ" :> <<"ⲣ">> @@ "Ⲥ" :> <<"ⲥ">> @@
    "Ⲧ" :> <<"ⲧ">> @@ "Ⲩ" :> <<"ⲩ">> @@ "Ⲫ" :> <<"ⲫ">> @@ "Ⲭ" :> <<"ⲭ">> @@ "Ⲯ" :> <<"ⲯ">>) @@
    ("Ⲱ" :> <<"ⲱ">> @@ "Ⲳ" :> <<"ⲳ">> @@ "Ⲵ" :> <<"ⲵ">> @@ "Ⲷ" :> <<"ⲷ">> @@ "Ⲹ" :> <<"ⲹ">> @@
    "Ⲻ" :> <<"ⲻ">> @@ "Ⲽ" :> <<"ⲽ">> @@ "Ⲿ" :> <<"ⲿ">> @@ "Ⳁ" :> <<"ⳁ">> @@ "Ⳃ" :> <<"ⳃ">> @@
    "Ⳅ" :> <<"ⳅ">> @@ "Ⳇ" :> <<"ⳇ">>)) @@ (("Ⳉ" :> <<"ⳉ">> @@ "Ⳋ" :> <<"ⳋ">> @@ "Ⳍ" :> <<"ⳍ">>
    @@ "Ⳏ" :> <<"ⳏ">> @@ "Ⳑ" :> <<"ⳑ">> @@ "Ⳓ" :> <<"ⳓ">> @@ "Ⳕ" :> <<"ⳕ">> @@ "Ⳗ" :> <<"ⳗ">> @@
    "Ⳙ" :> <<"ⳙ">> @@ "Ⳛ" :> <<"ⳛ">> @@ "Ⳝ" :> <<"ⳝ">> @@ "Ⳟ" :> <<"ⳟ">>) @@ ("Ⳡ" :> <<"ⳡ">> @@
    "Ⳣ" :> <<"ⳣ">> @@ "Ⳬ" :> <<"ⳬ">> @@ "Ⳮ" :> <<"ⳮ">> @@ "Ⳳ" :> <<"ⳳ">> @@ "<U+A640>" :>
    <<"<U+A641>">> @@ "<U+A642>" :> <<"<U+A643>">> @@ "<U+A644>" :> <<"<U+A645>">> @@ "<U+A646>"
    :> <<"<U+A647>">> @@ "<U+A648>" :> <<"<U+A649>">> @@ "<U+A64A>" :> <<"<U+A64B>">> @@
    "<U+A64C>" :> <<"<U+A64D>">>) @@ ("<U+A64E>" :> <<"<U+A64F>">> @@ "<U+A650>" :>
    <<"<U+A651>">> @@ "<U+A652>" :> <<"<U+A653>">> @@ "<U+A654>" :> <<"<U+A655>">> @@ "<U+A656>"
    :> <<"<U+A657>">> @@ "<U+A658>" :> <<"<U+A659>">> @@ "<U+A65A>" :> <<"<U+A65B>">> @@
    "<U+A65C>" :> <<"<U+A65D>">> @@ "<U+A65E>" :> <<"<U+A65F>">> @@ "<U+A660>" :> <<"<U+A661>">>
    @@ "<U+A662>" :> <<"<U+A663>">> @@ "<U+A664>" :> <<"<U+A665>">>) @@ ("<U+A666>" :>
    <<"<U+A667>">> @@ "<U+A668>" :> <<"<U+A669>">> @@ "<U+A66A>" :> <<"<U+A66B>">> @@ "<U+A66C>"
    :> <<"<U+A66D>">> @@ "Ꚁ" :> <<"ꚁ">> @@ "Ꚃ" :> <<"ꚃ">> @@ "Ꚅ" :> <<"ꚅ">> @@ "Ꚇ" :> <<"ꚇ">> @@
    "Ꚉ" :> <<"ꚉ">> @@ "Ꚋ" :> <<"ꚋ">> @@ "Ꚍ" :> <<"ꚍ">> @@ "Ꚏ" :> <<"ꚏ">>) @@ ("Ꚑ" :> <<"ꚑ">> @@
    "Ꚓ" :> <<"ꚓ">> @@ "Ꚕ" :> <<"ꚕ">> @@ "Ꚗ" :> <<"ꚗ">> @@ "Ꚙ" :> <<"ꚙ">> @@ "Ꚛ" :> <<"ꚛ">> @@
    "<U+A722>" :> <<"<U+A723>">> @@ "<U+A724>" :> <<"<U+A725>">> @@ "<U+A726>" :> <<"<U+A727>">>
    @@ "<U+A728>" :> <<"<U+A729>">> @@ "<U+A72A>" :> <<"<U+A72B>">> @@ "<U+A72C>" :>
    <<"<U+A72D>">>) @@ ("<U+A72E>" :> <<"<U+A72F>">> @@ "<U+A732>" :> <<"<U+A733>">> @@
    "<U+A734>" :> <<"<U+A735>">> @@ "<U+A736>" :> <<"<U+A737>">> @@ "<U+A738>" :> <<"<U+A739>">>
    @@ "<U+A73A>" :> <<"<U+A73B>">> @@ "<U+A73C>" :> <<"<U+A73D>">> @@ "<U+A73E>" :>
    <<"<U+A73F>">> @@ "<U+A740>" :> <<"<U+A741>">> @@ "<U+A742>" :> <<"<U+A743>">> @@ "<U+A744>"
    :> <<"<U+A745>">> @@ "<U+A746>" :> <<"<U+A747>">>) @@ ("<U+A748>" :> <<"<U+A749>">> @@
    "<U+A74A>" :> <<"<U+A74B>">> @@ "<U+A74C>" :> <<"<U+A74D>">> @@ "<U+A74E>" :> <<"<U+A74F>">>
    @@ "<U+A750>" :> <<"<U+A751>">> @@ "<U+A752>" :> <<"<U+A753>">> @@ "<U+A754>" :>
    <<"<U+A755>">> @@ "<U+A756>" :> <<"<U+A757>">> @@ "<U+A758>" :> <<"<U+A759>">> @@ "<U+A75A>"
    :> <<"<U+A75B>">> @@ "<U+A75C>" :> <<"<U+A75D>">> @@ "<U+A75E>" :> <<"<U+A75F>">>) @@
    ("<U+A760>" :> <<"<U+A761>">> @@ "<U+A762>" :> <<"<U+A763>">> @@ "<U+A764>" :>
    <<"<U+A765>">> @@ "<U+A766>" :> <<"<U+A767>">> @@ "<U+A768>" :> <<"<U+A769>">> @@ "<U+A76A>"
    :> <<"<U+A76B>">> @@ "<U+A76C>" :> <<"<U+A76D>">> @@ "<U+A76E>" :> <<"<U+A76F>">> @@
    "<U+A779>" :> <<"<U+A77A>">> @@ "<U+A77B>" :> <<"<U+A77C>">> @@ "<U+A77D>" :> <<"<U+1D79>">>
    @@ "<U+A77E>" :> <<"<U+A77F>">>) @@ ("Ꞁ" :> <<"ꞁ">> @@ "Ꞃ" :> <<"ꞃ">> @@ "Ꞅ" :> <<"ꞅ">> @@
    "Ꞇ" :> <<"ꞇ">> @@ "Ꞌ" :> <<"ꞌ">> @@ "Ɥ" :> <<"<U+0265>">> @@ "Ꞑ" :> <<"ꞑ">> @@ "Ꞓ" :>
    <<"ꞓ">> @@ "Ꞗ" :> <<"ꞗ">> @@ "Ꞙ" :> <<"ꞙ">> @@ "Ꞛ" :> <<"ꞛ">> @@ "Ꞝ" :> <<"ꞝ">>) @@ ("Ꞟ" :>
    <<"ꞟ">> @@ "Ꞡ" :> <<"ꞡ">> @@ "Ꞣ" :> <<"ꞣ">> @@ "Ꞥ" :> <<"ꞥ">> @@ "Ꞧ" :> <<"ꞧ">> @@ "Ꞩ" :>
    <<"ꞩ">> @@ "Ɦ" :> <<"<U+0266>">> @@ "Ɜ" :> <<"<U+025C>">> @@ "Ɡ" :> <<"<U+0261>">> @@ "Ɬ" :>
    <<"<U+026C>">> @@ "Ɪ" :> <<"<U+026A>">> @@ "Ʞ" :> <<"ʞ">>) @@ ("Ʇ" :> <<"ʇ">> @@ "Ʝ" :>
    <<"ʝ">> @@ "Ꭓ" :> <<"<U+AB53>">> @@ "Ꞵ" :> <<"ꞵ">> @@ "Ꞷ" :> <<"ꞷ">> @@ "Ꞹ" :> <<"ꞹ">> @@
    "Ꞻ" :> <<"ꞻ">> @@ "Ꞽ" :> <<"ꞽ">> @@ "Ꞿ" :> <<"ꞿ">> @@ "Ꟁ" :> <<"ꟁ">> @@ "Ꟃ" :> <<"ꟃ">> @@
    "Ꞔ" :> <<"ꞔ">>) @@ ("Ʂ" :> <<"ʂ">> @@ "Ᶎ" :> <<"ᶎ">> @@ "Ꟈ" :> <<"ꟈ">> @@ "Ꟊ" :> <<"ꟊ">> @@
    "<U+A7CB>" :> <<"<U+0264>">> @@ "<U+A7CC>" :> <<"<U+A7CD>">> @@ "<U+A7CE>" :> <<"<U+A7CF>">>
    @@ "Ꟑ" :> <<"ꟑ">> @@ "<U+A7D2>" :> <<"ꟓ">> @@ "<U+A7D4>" :> <<"ꟕ">> @@ "Ꟗ" :> <<"ꟗ">> @@ "Ꟙ"
    :> <<"ꟙ">>)) @@ (("<U+A7DA>" :> <<"<U+A7DB>">> @@ "<U+A7DC>" :> <<"ƛ">> @@ "Ꟶ" :> <<"ꟶ">> @@
    "<U+FF21>" :> <<"<U+FF41>">> @@ "<U+FF22>" :> <<"<U+FF42>">> @@ "<U+FF23>" :> <<"<U+FF43>">>
    @@ "<U+FF24>" :> <<"<U+FF44>">> @@ "<U+FF25>" :> <<"<U+FF45>">> @@ "<U+FF26>" :>
    <<"<U+FF46>">> @@ "<U+FF27>" :> <<"<U+FF47>">> @@ "<U+FF28>" :> <<"<U+FF48>">> @@ "<U+FF29>"
    :> <<"<U+FF49>">>) @@ ("<U+FF2A>" :> <<"<U+FF4A>">> @@ "<U+FF2B>" :> <<"<U+FF4B>">> @@
    "<U+FF2C>" :> <<"<U+FF4C>">> @@ "<U+FF2D>" :> <<"<U+FF4D>">> @@ "<U+FF2E>" :> <<"<U+FF4E>">>
    @@ "<U+FF2F>" :> <<"<U+FF4F>">> @@ "<U+FF30>" :> <<"<U+FF50>">> @@ "<U+FF31>" :>
    <<"<U+FF51>">> @@ "<U+FF32>" :> <<"<U+FF52>">> @@ "<U+FF33>" :> <<"<U+FF53>">> @@ "<U+FF34>"
    :> <<"<U+FF54>">> @@ "<U+FF35>" :> <<"<U+FF55>">>) @@ ("<U+FF36>" :> <<"<U+FF56>">> @@
    "<U+FF37>" :> <<"<U+FF57>">> @@ "<U+FF38>" :> <<"<U+FF58>">> @@ "<U+FF39>" :> <<"<U+FF59>">>
    @@ "<U+FF3A>" :> <<"<U+FF5A>">>))

\* the lower-case mapping of the code points that are a surrogate pair
UpperToLowerPairs ==
    ((<<"<U+D801>", "<U+DC00>">> :> <<"<U+D801>", "<U+DC28>">> @@ <<"<U+D801>", "<U+DC01>">> :>
    <<"<U+D801>", "<U+DC29>">> @@ <<"<U+D801>", "<U+DC02>">> :> <<"<U+D801>", "<U+DC2A>">> @@
    <<"<U+D801>", "<U+DC03>">> :> <<"<U+D801>", "<U+DC2B>">> @@ <<"<U+D801>", "<U+DC04>">> :>
    <<"<U+D801>", "<U+DC2C>">> @@ <<"<U+D801>", "<U+DC05>">> :> <<"<U+D801>", "<U+DC2D>">> @@
    <<"<U+D801>", "<U+DC06>">> :> <<"<U+D801>", "<U+DC2E>">> @@ <<"<U+D801>", "<U+DC07>">> :>
    <<"<U+D801>", "<U+DC2F>">> @@ <<"<U+D801>", "<U+DC08>">> :> <<"<U+D801>", "<U+DC30>">> @@
    <<"<U+D801>", "<U+DC09>">> :> <<"<U+D801>", "<U+DC31>">> @@ <<"<U+D801>", "<U+DC0A>">> :>
    <<"<U+D801>", "<U+DC32>">> @@ <<"<U+D801>", "<U+DC0B>">> :> <<"<U+D801>", "<U+DC33>">>) @@
    (<<"<U+D801>", "<U+DC0C>">> :> <<"<U+D801>", "<U+DC34>">> @@ <<"<U+D801>", "<U+DC0D>">> :>
    <<"<U+D801>", "<U+DC35>">> @@ <<"<U+D801>", "<U+DC0E>">> :> <<"<U+D801>", "<U+DC36>">> @@
    <<"<U+D801>", "<U+DC0F>">> :> <<"<U+D801>", "<U+DC37>">> @@ <<"<U+D801>", "<U+DC10>">> :>
    <<"<U+D801>", "<U+DC38>">> @@ <<"<U+D801>", "<U+DC11>">> :> <<"<U+D801>", "<U+DC39>">> @@
    <<"<U+D801>", "<U+DC12>">> :> <<"<U+D801>", "<U+DC3A>">> @@ <<"<U+D801>", "<U+DC13>">> :>
    <<"<U+D801>", "<U+DC3B>">> @@ <<"<U+D801>", "<U+DC14>">> :> <<"<U+D801>", "<U+DC3C>">> @@
    <<"<U+D801>", "<U+DC15>">> :> <<"<U+D801>", "<U+DC3D>">> @@ <<"<U+D801>", "<U+DC16>">> :>
    <<"<U+D801>", "<U+DC3E>">> @@ <<"<U+D801>", "<U+DC17>">> :> <<"<U+D801>", "<U+DC3F>">>) @@
    (<<"<U+D801>", "<U+DC18>">> :> <<"<U+D801>", "<U+DC40>">> @@ <<"<U+D801>", "<U+DC19>">> :>
    <<"<U+D801>", "<U+DC41>">> @@ <<"<U+D801>", "<U+DC1A>">> :> <<"<U+D801>", "<U+DC42>">> @@
    <<"<U+D801>", "<U+DC1B>">> :> <<"<U+D801>", "<U+DC43>">> @@ <<"<U+D801>", "<U+DC1C>">> :>
    <<"<U+D801>", "<U+DC44>">> @@ <<"<U+D801>", "<U+DC1D>">> :> <<"<U+D801>", "<U+DC45>">> @@
    <<"<U+D801>", "<U+DC1E>">> :> <<"<U+D801>", "<U+DC46>">> @@ <<"<U+D801>", "<U+DC1F>">> :>
    <<"<U+D801>", "<U+DC47>">> @@ <<"<U+D801>", "<U+DC20>">> :> <<"<U+D801>", "<U+DC48>">> @@
    <<"<U+D801>", "<U+DC21>">> :> <<"<U+D801>", "<U+DC49>">> @@ <<"<U+D801>", "<U+DC22>">> :>
    <<"<U+D801>", "<U+DC4A>">> @@ <<"<U+D801>", "<U+DC23>">> :> <<"<U+D801>", "<U+DC4B>">>) @@
    (<<"<U+D801>", "<U+DC24>">> :> <<"<U+D801>", "<U+DC4C>">> @@ <<"<U+D801>", "<U+DC25>">> :>
    <<"<U+D801>", "<U+DC4D>">> @@ <<"<U+D801>", "<U+DC26>">> :> <<"<U+D801>", "<U+DC4E>">> @@
    <<"<U+D801>", "<U+DC27>">> :> <<"<U+D801>", "<U+DC4F>">> @@ <<"<U+D801>", "<U+DCB0>">> :>
    <<"<U+D801>", "<U+DCD8>">> @@ <<"<U+D801>", "<U+DCB1>">> :> <<"<U+D801>", "<U+DCD9>">> @@
    <<"<U+D801>", "<U+DCB2>">> :> <<"<U+D801>", "<U+DCDA>">> @@ <<"<U+D801>", "<U+DCB3>">> :>
    <<"<U+D801>", "<U+DCDB>">> @@ <<"<U+D801>", "<U+DCB4>">> :> <<"<U+D801>", "<U+DCDC>">> @@
    <<"<U+D801>", "<U+DCB5>">> :> <<"<U+D801>", "<U+DCDD>">> @@ <<"<U+D801>", "<U+DCB6>">> :>
    <<"<U+D801>", "<U+DCDE>">> @@ <<"<U+D801>", "<U+DCB7>">> :> <<"<U+D801>", "<U+DCDF>">>) @@
    (<<"<U+D801>", "<U+DCB8>">> :> <<"<U+D801>", "<U+DCE0>">> @@ <<"<U+D801>", "<U+DCB9>">> :>
    <<"<U+D801>", "<U+DCE1>">> @@ <<"<U+D801>", "<U+DCBA>">> :> <<"<U+D801>", "<U+DCE2>">> @@
    <<"<U+D801>", "<U+DCBB>">> :> <<"<U+D801>", "<U+DCE3>">> @@ <<"<U+D801>", "<U+DCBC>">> :>
    <<"<U+D801>", "<U+DCE4>">> @@ <<"<U+D801>", "<U+DCBD>">> :> <<"<U+D801>", "<U+DCE5>">> @@
    <<"<U+D801>", "<U+DCBE>">> :> <<"<U+D801>", "<U+DCE6>">> @@ <<"<U+D801>", "<U+DCBF>">> :>
    <<"<U+D801>", "<U+DCE7>">> @@ <<"<U+D801>", "<U+DCC0>">> :> <<"<U+D801>", "<U+DCE8>">> @@
    <<"<U+D801>", "<U+DCC1>">> :> <<"<U+D801>", "<U+DCE9>">> @@ <<"<U+D801>", "<U+DCC2>">> :>
    <<"<U+D801>", "<U+DCEA>">> @@ <<"<U+D801>", "<U+DCC3>">> :> <<"<U+D801>", "<U+DCEB>">>) @@
    (<<"<U+D801>", "<U+DCC4>">> :> <<"<U+D801>", "<U+DCEC>">> @@ <<"<U+D801>", "<U+DCC5>">> :>
    <<"<U+D801>", "<U+DCED>">> @@ <<"<U+D801>", "<U+DCC6>">> :> <<"<U+D801>", "<U+DCEE>">> @@
    <<"<U+D801>", "<U+DCC7>">> :> <<"<U+D801>", "<U+DCEF>">> @@ <<"<U+D801>", "<U+DCC8>">> :>
    <<"<U+D801>", "<U+DCF0>">> @@ <<"<U+D801>", "<U+DCC9>">> :> <<"<U+D801>", "<U+DCF1>">> @@
    <<"<U+D801>", "<U+DCCA>">> :> <<"<U+D801>", "<U+DCF2>">> @@ <<"<U+D801>", "<U+DCCB>">> :>
    <<"<U+D801>", "<U+DCF3>">> @@ <<"<U+D801>", "<U+DCCC>">> :> <<"<U+D801>", "<U+DCF4>">> @@
    <<"<U+D801>", "<U+DCCD>">> :> <<"<U+D801>", "<U+DCF5>">> @@ <<"<U+D801>", "<U+DCCE>">> :>
    <<"<U+D801>", "<U+DCF6>">> @@ <<"<U+D801>", "<U+DCCF>">> :> <<"<U+D801>", "<U+DCF7>">>) @@
    (<<"<U+D801>", "<U+DCD0>">> :> <<"<U+D801>", "<U+DCF8>">> @@ <<"<U+D801>", "<U+DCD1>">> :>
    <<"<U+D801>", "<U+DCF9>">> @@ <<"<U+D801>", "<U+DCD2>">> :> <<"<U+D801>", "<U+DCFA>">> @@
    <<"<U+D801>", "<U+DCD3>">> :> <<"<U+D801>", "<U+DCFB>">> @@ <<"<U+D801>", "<U+DD70>">> :>
    <<"<U+D801>", "<U+DD97>">> @@ <<"<U+D801>", "<U+DD71>">> :> <<"<U+D801>", "<U+DD98>">> @@
    <<"<U+D801>", "<U+DD72>">> :> <<"<U+D801>", "<U+DD99>">> @@ <<"<U+D801>", "<U+DD73>">> :>
    <<"<U+D801>", "<U+DD9A>">> @@ <<"<U+D801>", "<U+DD74>">> :> <<"<U+D801>", "<U+DD9B>">> @@
    <<"<U+D801>", "<U+DD75>">> :> <<"<U+D801>", "<U+DD9C>">> @@ <<"<U+D801>", "<U+DD76>">> :>
    <<"<U+D801>", "<U+DD9D>">> @@ <<"<U+D801>", "<U+DD77>">> :> <<"<U+D801>", "<U+DD9E>">>) @@
    (<<"<U+D801>", "<U+DD78>">> :> <<"<U+D801>", "<U+DD9F>">> @@ <<"<U+D801>", "<U+DD79>">> :>
    <<"<U+D801>", "<U+DDA0>">> @@ <<"<U+D801>", "<U+DD7A>">> :> <<"<U+D801>", "<U+DDA1>">> @@
    <<"<U+D801>", "<U+DD7C>">> :> <<"<U+D801>", "<U+DDA3>">> @@ <<"<U+D801>", "<U+DD7D>">> :>
    <<"<U+D801>", "<U+DDA4>">> @@ <<"<U+D801>", "<U+DD7E>">> :> <<"<U+D801>", "<U+DDA5>">> @@
    <<"<U+D801>", "<U+DD7F>">> :> <<"<U+D801>", "<U+DDA6>">> @@ <<"<U+D801>", "<U+DD80>">> :>
    <<"<U+D801>", "<U+DDA7>">> @@ <<"<U+D801>", "<U+DD81>">> :> <<"<U+D801>", "<U+DDA8>">> @@
    <<"<U+D801>", "<U+DD82>">> :> <<"<U+D801>", "<U+DDA9>">> @@ <<"<U+D801>", "<U+DD83>">> :>
    <<"<U+D801>", "<U+DDAA>">> @@ <<"<U+D801>", "<U+DD84>">> :> <<"<U+D801>", "<U+DDAB>">>) @@
    (<<"<U+D801>", "<U+DD85>">> :> <<"<U+D801>", "<U+DDAC>">> @@ <<"<U+D801>", "<U+DD86>">> :>
    <<"<U+D801>", "<U+DDAD>">> @@ <<"<U+D801>", "<U+DD87>">> :> <<"<U+D801>", "<U+DDAE>">> @@
    <<"<U+D801>", "<U+DD88>">> :> <<"<U+D801>", "<U+DDAF>">> @@ <<"<U+D801>", "<U+DD89>">> :>
    <<"<U+D801>", "<U+DDB0>">> @@ <<"<U+D801>", "<U+DD8A>">> :> <<"<U+D801>", "<U+DDB1>">> @@
    <<"<U+D801>", "<U+DD8C>">> :> <<"<U+D801>", "<U+DDB3>">> @@ <<"<U+D801>", "<U+DD8D>">> :>
    <<"<U+D801>", "<U+DDB4>">> @@ <<"<U+D801>", "<U+DD8E>">> :> <<"<U+D801>", "<U+DDB5>">> @@
    <<"<U+D801>", "<U+DD8F>">> :> <<"<U+D801>", "<U+DDB6>">> @@ <<"<U+D801>", "<U+DD90>">> :>
    <<"<U+D801>", "<U+DDB7>">> @@ <<"<U+D801>", "<U+DD91>">> :> <<"<U+D801>", "<U+DDB8>">>) @@
    (<<"<U+D801>", "<U+DD92>">> :> <<"<U+D801>", "<U+DDB9>">> @@ <<"<U+D801>", "<U+DD94>">> :>
    <<"<U+D801>", "<U+DDBB>">> @@ <<"<U+D801>", "<U+DD95>">> :> <<"<U+D801>", "<U+DDBC>">> @@
    <<"<U+D803>", "<U+DC80>">> :> <<"<U+D803>", "<U+DCC0>">> @@ <<"<U+D803>", "<U+DC81>">> :>
    <<"<U+D803>", "<U+DCC1>">> @@ <<"<U+D803>", "<U+DC82>">> :> <<"<U+D803>", "<U+DCC2>">> @@
    <<"<U+D803>", "<U+DC83>">> :> <<"<U+D803>", "<U+DCC3>">> @@ <<"<U+D803>", "<U+DC84>">> :>
    <<"<U+D803>", "<U+DCC4>">> @@ <<"<U+D803>", "<U+DC85>">> :> <<"<U+D803>", "<U+DCC5>">> @@
    <<"<U+D803>", "<U+DC86>">> :> <<"<U+D803>", "<U+DCC6>">> @@ <<"<U+D803>", "<U+DC87>">> :>
    <<"<U+D803>", "<U+DCC7>">> @@ <<"<U+D803>", "<U+DC88>">> :> <<"<U+D803>", "<U+DCC8>">>) @@
    (<<"<U+D803>", "<U+DC89>">> :> <<"<U+D803>", "<U+DCC9>">> @@ <<"<U+D803>", "<U+DC8A>">> :>
    <<"<U+D803>", "<U+DCCA>">> @@ <<"<U+D803>", "<U+DC8B>">> :> <<"<U+D803>", "<U+DCCB>">> @@
    <<"<U+D803>", "<U+DC8C>">> :> <<"<U+D803>", "<U+DCCC>">> @@ <<"<U+D803>", "<U+DC8D>">> :>
    <<"<U+D803>", "<U+DCCD>">> @@ <<"<U+D803>", "<U+DC8E>">> :> <<"<U+D803>", "<U+DCCE>">> @@
    <<"<U+D803>", "<U+DC8F>">> :> <<"<U+D803>", "<U+DCCF>">> @@ <<"<U+D803>", "<U+DC90>">> :>
    <<"<U+D803>", "<U+DCD0>">> @@ <<"<U+D803>", "<U+DC91>">> :> <<"<U+D803>", "<U+DCD1>">> @@
    <<"<U+D803>", "<U+DC92>">> :> <<"<U+D803>", "<U+DCD2>">> @@ <<"<U+D803>", "<U+DC93>">> :>
    <<"<U+D803>", "<U+DCD3>">> @@ <<"<U+D803>", "<U+DC94>">> :> <<"<U+D803>", "<U+DCD4>">>) @@
    (<<"<U+D803>", "<U+DC95>">> :> <<"<U+D803>", "<U+DCD5>">> @@ <<"<U+D803>", "<U+DC96>">> :>
    <<"<U+D803>", "<U+DCD6>">> @@ <<"<U+D803>", "<U+DC97>">> :> <<"<U+D803>", "<U+DCD7>">> @@
    <<"<U+D803>", "<U+DC98>">> :> <<"<U+D803>", "<U+DCD8>">> @@ <<"<U+D803>", "<U+DC99>">> :>
    <<"<U+D803>", "<U+DCD9>">> @@ <<"<U+D803>", "<U+DC9A>">> :> <<"<U+D803>", "<U+DCDA>">> @@
    <<"<U+D803>", "<U+DC9B>">> :> <<"<U+D803>", "<U+DCDB>">> @@ <<"<U+D803>", "<U+DC9C>">> :>
    <<"<U+D803>", "<U+DCDC>">> @@ <<"<U+D803>", "<U+DC9D>">> :> <<"<U+D803>", "<U+DCDD>">> @@
    <<"<U+D803>", "<U+DC9E>">> :> <<"<U+D803>", "<U+DCDE>">> @@ <<"<U+D803>", "<U+DC9F>">> :>
    <<"<U+D803>", "<U+DCDF>">> @@ <<"<U+D803>", "<U+DCA0>">> :> <<"<U+D803>", "<U+DCE0>">>)) @@
    ((<<"<U+D803>", "<U+DCA1>">> :> <<"<U+D803>", "<U+DCE1>">> @@ <<"<U+D803>", "<U+DCA2>">> :>
    <<"<U+D803>", "<U+DCE2>">> @@ <<"<U+D803>", "<U+DCA3>">> :> <<"<U+D803>", "<U+DCE3>">> @@
    <<"<U+D803>", "<U+DCA4>">> :> <<"<U+D803>", "<U+DCE4>">> @@ <<"<U+D803>", "<U+DCA5>">> :>
    <<"<U+D803>", "<U+DCE5>">> @@ <<"<U+D803>", "<U+DCA6>">> :> <<"<U+D803>", "<U+DCE6>">> @@
    <<"<U+D803>", "<U+DCA7>">> :> <<"<U+D803>", "<U+DCE7>">> @@ <<"<U+D803>", "<U+DCA8>">> :>
    <<"<U+D803>", "<U+DCE8>">> @@ <<"<U+D803>", "<U+DCA9>">> :> <<"<U+D803>", "<U+DCE9>">> @@
    <<"<U+D803>", "<U+DCAA>">> :> <<"<U+D803>", "<U+DCEA>">> @@ <<"<U+D803>", "<U+DCAB>">> :>
    <<"<U+D803>", "<U+DCEB>">> @@ <<"<U+D803>", "<U+DCAC>">> :> <<"<U+D803>", "<U+DCEC>">>) @@
    (<<"<U+D803>", "<U+DCAD>">> :> <<"<U+D803>", "<U+DCED>">> @@ <<"<U+D803>", "<U+DCAE>">> :>
    <<"<U+D803>", "<U+DCEE>">> @@ <<"<U+D803>", "<U+DCAF>">> :> <<"<U+D803>", "<U+DCEF>">> @@
    <<"<U+D803>", "<U+DCB0>">> :> <<"<U+D803>", "<U+DCF0>">> @@ <<"<U+D803>", "<U+DCB1>">> :>
    <<"<U+D803>", "<U+DCF1>">> @@ <<"<U+D803>", "<U+DCB2>">> :> <<"<U+D803>", "<U+DCF2>">> @@
    <<"<U+D803>", "<U+DD50>">> :> <<"<U+D803>", "<U+DD70>">> @@ <<"<U+D803>", "<U+DD51>">> :>
    <<"<U+D803>", "<U+DD71>">> @@ <<"<U+D803>", "<U+DD52>">> :> <<"<U+D803>", "<U+DD72>">> @@
    <<"<U+D803>", "<U+DD53>">> :> <<"<U+D803>", "<U+DD73>">> @@ <<"<U+D803>", "<U+DD54>">> :>
    <<"<U+D803>", "<U+DD74>">> @@ <<"<U+D803>", "<U+DD55>">> :> <<"<U+D803>", "<U+DD75>">>) @@
    (<<"<U+D803>", "<U+DD56>">> :> <<"<U+D803>", "<U+DD76>">> @@ <<"<U+D803>", "<U+DD57>">> :>
    <<"<U+D803>", "<U+DD77>">> @@ <<"<U+D803>", "<U+DD58>">> :> <<"<U+D803>", "<U+DD78>">> @@
    <<"<U+D803>", "<U+DD59>">> :> <<"<U+D803>", "<U+DD79>">> @@ <<"<U+D803>", "<U+DD5A>">> :>
    <<"<U+D803>", "<U+DD7A>">> @@ <<"<U+D803>", "<U+DD5B>">> :> <<"<U+D803>", "<U+DD7B>">> @@
    <<"<U+D803>", "<U+DD5C>">> :> <<"<U+D803>", "<U+DD7C>">> @@ <<"<U+D803>", "<U+DD5D>">> :>
    <<"<U+D803>", "<U+DD7D>">> @@ <<"<U+D803>", "<U+DD5E>">> :> <<"<U+D803>", "<U+DD7E>">> @@
    <<"<U+D803>", "<U+DD5F>">> :> <<"<U+D803>", "<U+DD7F>">> @@ <<"<U+D803>", "<U+DD60>">> :>
    <<"<U+D803>", "<U+DD80>">> @@ <<"<U+D803>", "<U+DD61>">> :> <<"<U+D803>", "<U+DD81>">>) @@
    (<<"<U+D803>", "<U+DD62>">> :> <<"<U+D803>", "<U+DD82>">> @@ <<"<U+D803>", "<U+DD63>">> :>
    <<"<U+D803>", "<U+DD83>">> @@ <<"<U+D803>", "<U+DD64>">> :> <<"<U+D803>", "<U+DD84>">> @@
    <<"<U+D803>", "<U+DD65>">> :> <<"<U+D803>", "<U+DD85>">> @@ <<"<U+D806>", "<U+DCA0>">> :>
    <<"<U+D806>", "<U+DCC0>">> @@ <<"<U+D806>", "<U+DCA1>">> :> <<"<U+D806>", "<U+DCC1>">> @@
    <<"<U+D806>", "<U+DCA2>">> :> <<"<U+D806>", "<U+DCC2>">> @@ <<"<U+D806>", "<U+DCA3>">> :>
    <<"<U+D806>", "<U+DCC3>">> @@ <<"<U+D806>", "<U+DCA4>">> :> <<"<U+D806>", "<U+DCC4>">> @@
    <<"<U+D806>", "<U+DCA5>">> :> <<"<U+D806>", "<U+DCC5>">> @@ <<"<U+D806>", "<U+DCA6>">> :>
    <<"<U+D806>", "<U+DCC6>">> @@ <<"<U+D806>", "<U+DCA7>">> :> <<"<U+D806>", "<U+DCC7>">>) @@
    (<<"<U+D806>", "<U+DCA8>">> :> <<"<U+D806>", "<U+DCC8>">> @@ <<"<U+D806>", "<U+DCA9>">> :>
    <<"<U+D806>", "<U+DCC9>">> @@ <<"<U+D806>", "<U+DCAA>">> :> <<"<U+D806>", "<U+DCCA>">> @@
    <<"<U+D806>", "<U+DCAB>">> :> <<"<U+D806>", "<U+DCCB>">> @@ <<"<U+D806>", "<U+DCAC>">> :>
    <<"<U+D806>", "<U+DCCC>">> @@ <<"<U+D806>", "<U+DCAD>">> :> <<"<U+D806>", "<U+DCCD>">> @@
    <<"<U+D806>", "<U+DCAE>">> :> <<"<U+D806>", "<U+DCCE>">> @@ <<"<U+D806>", "<U+DCAF>">> :>
    <<"<U+D806>", "<U+DCCF>">> @@ <<"<U+D806>", "<U+DCB0>">> :> <<"<U+D806>", "<U+DCD0>">> @@
    <<"<U+D806>", "<U+DCB1>">> :> <<"<U+D806>", "<U+DCD1>">> @@ <<"<U+D806>", "<U+DCB2>">> :>
    <<"<U+D806>", "<U+DCD2>">> @@ <<"<U+D806>", "<U+DCB3>">> :> <<"<U+D806>", "<U+DCD3>">>) @@
    (<<"<U+D806>", "<U+DCB4>">> :> <<"<U+D806>", "<U+DCD4>">> @@ <<"<U+D806>", "<U+DCB5>">> :>
    <<"<U+D806>", "<U+DCD5>">> @@ <<"<U+D806>", "<U+DCB6>">> :> <<"<U+D806>", "<U+DCD6>">> @@
    <<"<U+D806>", "<U+DCB7>">> :> <<"<U+D806>", "<U+DCD7>">> @@ <<"<U+D806>", "<U+DCB8>">> :>
    <<"<U+D806>", "<U+DCD8>">> @@ <<"<U+D806>", "<U+DCB9>">> :> <<"<U+D806>", "<U+DCD9>">> @@
    <<"<U+D806>", "<U+DCBA>">> :> <<"<U+D806>", "<U+DCDA>">> @@ <<"<U+D806>", "<U+DCBB>">> :>
    <<"<U+D806>", "<U+DCDB>">> @@ <<"<U+D806>", "<U+DCBC>">> :> <<"<U+D806>", "<U+DCDC>">> @@
    <<"<U+D806>", "<U+DCBD>">> :> <<"<U+D806>", "<U+DCDD>">> @@ <<"<U+D806>", "<U+DCBE>">> :>
    <<"<U+D806>", "<U+DCDE>">> @@ <<"<U+D806>", "<U+DCBF>">> :> <<"<U+D806>", "<U+DCDF>">>) @@
    (<<"<U+D81B>", "<U+DE40>">> :> <<"<U+D81B>", "<U+DE60>">> @@ <<"<U+D81B>", "<U+DE41>">> :>
    <<"<U+D81B>", "<U+DE61>">> @@ <<"<U+D81B>", "<U+DE42>">> :> <<"<U+D81B>", "<U+DE62>">> @@
    <<"<U+D81B>", "<U+DE43>">> :> <<"<U+D81B>", "<U+DE63>">> @@ <<"<U+D81B>", "<U+DE44>">> :>
    <<"<U+D81B>", "<U+DE64>">> @@ <<"<U+D81B>", "<U+DE45>">> :> <<"<U+D81B>", "<U+DE65>">> @@
    <<"<U+D81B>", "<U+DE46>">> :> <<"<U+D81B>", "<U+DE66>">> @@ <<"<U+D81B>", "<U+DE47>">> :>
    <<"<U+D81B>", "<U+DE67>">> @@ <<"<U+D81B>", "<U+DE48>">> :> <<"<U+D81B>", "<U+DE68>">> @@
    <<"<U+D81B>", "<U+DE49>">> :> <<"<U+D81B>", "<U+DE69>">> @@ <<"<U+D81B>", "<U+DE4A>">> :>
    <<"<U+D81B>", "<U+DE6A>">> @@ <<"<U+D81B>", "<U+DE4B>">> :> <<"<U+D81B>", "<U+DE6B>">>) @@
    (<<"<U+D81B>", "<U+DE4C>">> :> <<"<U+D81B>", "<U+DE6C>">> @@ <<"<U+D81B>", "<U+DE4D>">> :>
    <<"<U+D81B>", "<U+DE6D>">> @@ <<"<U+D81B>", "<U+DE4E>">> :> <<"<U+D81B>", "<U+DE6E>">> @@
    <<"<U+D81B>", "<U+DE4F>">> :> <<"<U+D81B>", "<U+DE6F>">> @@ <<"<U+D81B>", "<U+DE50>">> :>
    <<"<U+D81B>", "<U+DE70>">> @@ <<"<U+D81B>", "<U+DE51>">> :> <<"<U+D81B>", "<U+DE71>">> @@
    <<"<U+D81B>", "<U+DE52>">> :> <<"<U+D81B>", "<U+DE72>">> @@ <<"<U+D81B>", "<U+DE53>">> :>
    <<"<U+D81B>", "<U+DE73>">> @@ <<"<U+D81B>", "<U+DE54>">> :> <<"<U+D81B>", "<U+DE74>">> @@
    <<"<U+D81B>", "<U+DE55>">> :> <<"<U+D81B>", "<U+DE75>">> @@ <<"<U+D81B>", "<U+DE56>">> :>
    <<"<U+D81B>", "<U+DE76>">> @@ <<"<U+D81B>", "<U+DE57>">> :> <<"<U+D81B>", "<U+DE77>">>) @@
    (<<"<U+D81B>", "<U+DE58>">> :> <<"<U+D81B>", "<U+DE78>">> @@ <<"<U+D81B>", "<U+DE59>">> :>
    <<"<U+D81B>", "<U+DE79>">> @@ <<"<U+D81B>", "<U+DE5A>">> :> <<"<U+D81B>", "<U+DE7A>">> @@
    <<"<U+D81B>", "<U+DE5B>">> :> <<"<U+D81B>", "<U+DE7B>">> @@ <<"<U+D81B>", "<U+DE5C>">> :>
    <<"<U+D81B>", "<U+DE7C>">> @@ <<"<U+D81B>", "<U+DE5D>">> :> <<"<U+D81B>", "<U+DE7D>">> @@
    <<"<U+D81B>", "<U+DE5E>">> :> <<"<U+D81B>", "<U+DE7E>">> @@ <<"<U+D81B>", "<U+DE5F>">> :>
    <<"<U+D81B>", "<U+DE7F>">> @@ <<"<U+D81B>", "<U+DEA0>">> :> <<"<U+D81B>", "<U+DEBB>">> @@
    <<"<U+D81B>", "<U+DEA1>">> :> <<"<U+D81B>", "<U+DEBC>">> @@ <<"<U+D81B>", "<U+DEA2>">> :>
    <<"<U+D81B>", "<U+DEBD>">> @@ <<"<U+D81B>", "<U+DEA3>">> :> <<"<U+D81B>", "<U+DEBE>">>) @@
    (<<"<U+D81B>", "<U+DEA4>">> :> <<"<U+D81B>", "<U+DEBF>">> @@ <<"<U+D81B>", "<U+DEA5>">> :>
    <<"<U+D81B>", "<U+DEC0>">> @@ <<"<U+D81B>", "<U+DEA6>">> :> <<"<U+D81B>", "<U+DEC1>">> @@
    <<"<U+D81B>", "<U+DEA7>">> :> <<"<U+D81B>", "<U+DEC2>">> @@ <<"<U+D81B>", "<U+DEA8>">> :>
    <<"<U+D81B>", "<U+DEC3>">> @@ <<"<U+D81B>", "<U+DEA9>">> :> <<"<U+D81B>", "<U+DEC4>">> @@
    <<"<U+D81B>", "<U+DEAA>">> :> <<"<U+D81B>", "<U+DEC5>">> @@ <<"<U+D81B>", "<U+DEAB>">> :>
    <<"<U+D81B>", "<U+DEC6>">> @@ <<"<U+D81B>", "<U+DEAC>">> :> <<"<U+D81B>", "<U+DEC7>">> @@
    <<"<U+D81B>", "<U+DEAD>">> :> <<"<U+D81B>", "<U+DEC8>">> @@ <<"<U+D81B>", "<U+DEAE>">> :>
    <<"<U+D81B>", "<U+DEC9>">> @@ <<"<U+D81B>", "<U+DEAF>">> :> <<"<U+D81B>", "<U+DECA>">>) @@
    (<<"<U+D81B>", "<U+DEB0>">> :> <<"<U+D81B>", "<U+DECB>">> @@ <<"<U+D81B>", "<U+DEB1>">> :>
    <<"<U+D81B>", "<U+DECC>">> @@ <<"<U+D81B>", "<U+DEB2>">> :> <<"<U+D81B>", "<U+DECD>">> @@
    <<"<U+D81B>", "<U+DEB3>">> :> <<"<U+D81B>", "<U+DECE>">> @@ <<"<U+D81B>", "<U+DEB4>">> :>
    <<"<U+D81B>", "<U+DECF>">> @@ <<"<U+D81B>", "<U+DEB5>">> :> <<"<U+D81B>", "<U+DED0>">> @@
    <<"<U+D81B>", "<U+DEB6>">> :> <<"<U+D81B>", "<U+DED1>">> @@ <<"<U+D81B>", "<U+DEB7>">> :>
    <<"<U+D81B>", "<U+DED2>">> @@ <<"<U+D81B>", "<U+DEB8>">> :> <<"<U+D81B>", "<U+DED3>">> @@
    <<"<U+D83A>", "<U+DD00>">> :> <<"<U+D83A>", "<U+DD22>">> @@ <<"<U+D83A>", "<U+DD01>">> :>
    <<"<U+D83A>", "<U+DD23>">> @@ <<"<U+D83A>", "<U+DD02>">> :> <<"<U+D83A>", "<U+DD24>">>) @@
    (<<"<U+D83A>", "<U+DD03>">> :> <<"<U+D83A>", "<U+DD25>">> @@ <<"<U+D83A>", "<U+DD04>">> :>
    <<"<U+D83A>", "<U+DD26>">> @@ <<"<U+D83A>", "<U+DD05>">> :> <<"<U+D83A>", "<U+DD27>">> @@
    <<"<U+D83A>", "<U+DD06>">> :> <<"<U+D83A>", "<U+DD28>">> @@ <<"<U+D83A>", "<U+DD07>">> :>
    <<"<U+D83A>", "<U+DD29>">> @@ <<"<U+D83A>", "<U+DD08>">> :> <<"<U+D83A>", "<U+DD2A>">> @@
    <<"<U+D83A>", "<U+DD09>">> :> <<"<U+D83A>", "<U+DD2B>">> @@ <<"<U+D83A>", "<U+DD0A>">> :>
    <<"<U+D83A>", "<U+DD2C>">> @@ <<"<U+D83A>", "<U+DD0B>">> :> <<"<U+D83A>", "<U+DD2D>">> @@
    <<"<U+D83A>", "<U+DD0C>">> :> <<"<U+D83A>", "<U+DD2E>">> @@ <<"<U+D83A>", "<U+DD0D>">> :>
    <<"<U+D83A>", "<U+DD2F>">> @@ <<"<U+D83A>", "<U+DD0E>">> :> <<"<U+D83A>", "<U+DD30>">>)) @@
    ((<<"<U+D83A>", "<U+DD0F>">> :> <<"<U+D83A>", "<U+DD31>">> @@ <<"<U+D83A>", "<U+DD10>">> :>
    <<"<U+D83A>", "<U+DD32>">> @@ <<"<U+D83A>", "<U+DD11>">> :> <<"<U+D83A>", "<U+DD33>">> @@
    <<"<U+D83A>", "<U+DD12>">> :> <<"<U+D83A>", "<U+DD34>">> @@ <<"<U+D83A>", "<U+DD13>">> :>
    <<"<U+D83A>", "<U+DD35>">> @@ <<"<U+D83A>", "<U+DD14>">> :> <<"<U+D83A>", "<U+DD36>">> @@
    <<"<U+D83A>", "<U+DD15>">> :> <<"<U+D83A>", "<U+DD37>">> @@ <<"<U+D83A>", "<U+DD16>">> :>
    <<"<U+D83A>", "<U+DD38>">> @@ <<"<U+D83A>", "<U+DD17>">> :> <<"<U+D83A>", "<U+DD39>">> @@
    <<"<U+D83A>", "<U+DD18>">> :> <<"<U+D83A>", "<U+DD3A>">> @@ <<"<U+D83A>", "<U+DD19>">> :>
    <<"<U+D83A>", "<U+DD3B>">> @@ <<"<U+D83A>", "<U+DD1A>">> :> <<"<U+D83A>", "<U+DD3C>">>) @@
    (<<"<U+D83A>", "<U+DD1B>">> :> <<"<U+D83A>", "<U+DD3D>">> @@ <<"<U+D83A>", "<U+DD1C>">> :>
    <<"<U+D83A>", "<U+DD3E>">> @@ <<"<U+D83A>", "<U+DD1D>">> :> <<"<U+D83A>", "<U+DD3F>">> @@
    <<"<U+D83A>", "<U+DD1E>">> :> <<"<U+D83A>", "<U+DD40>">> @@ <<"<U+D83A>", "<U+DD1F>">> :>
    <<"<U+D83A>", "<U+DD41>">> @@ <<"<U+D83A>", "<U+DD20>">> :> <<"<U+D83A>", "<U+DD42>">> @@
    <<"<U+D83A>", "<U+DD21>">> :> <<"<U+D83A>", "<U+DD43>">>))

\* the cased letters that are not case-ignorable: one code unit, and surrogate pairs
CasedUnits ==
    {"A", "B", "C", "D", "E", "F", "G", "H", "I", "J", "K", "L", "M", "N", "O", "P", "Q", "R",
     "S", "T", "U", "V", "W", "X", "Y", "Z", "a", "b", "c", "d", "e", "f", "g", "h", "i", "j",
     "k", "l", "m", "n", "o", "p", "q", "r", "s", "t", "u", "v", "w", "x", "y", "z", "ª", "µ",
     "º", "À", "Á", "Â", "Ã", "Ä", "Å", "Æ", "Ç", "È", "É", "Ê", "Ë", "Ì", "Í", "Î", "Ï", "Ð",
     "Ñ", "Ò", "Ó", "Ô", "Õ", "Ö", "Ø", "Ù", "Ú", "Û", "Ü", "Ý", "Þ", "ß", "à", "á", "â", "ã",
     "ä", "å", "æ", "ç", "è", "é", "ê", "ë", "ì", "í", "î", "ï", "ð", "ñ", "ò", "ó", "ô", "õ",
     "ö", "ø", "ù", "ú", "û", "ü", "ý", "þ", "ÿ", "<U+0100>", "<U+0101>", "<U+0102>",
     "<U+0103>", "<U+0104>", "<U+0105>", "<U+0106>", "<U+0107>", "<U+0108>", "<U+0109>",
     "<U+010A>", "<U+010B>", "<U+010C>", "<U+010D>", "<U+010E>", "<U+010F>", "<U+0110>",
     "<U+0111>", "<U+0112>", "<U+0113>", "<U+0114>", "<U+0115>", "<U+0116>", "<U+0117>",
     "<U+0118>", "<U+0119>", "<U+011A>", "<U+011B>", "<U+011C>", "<U+011D>", "<U+011E>",
     "<U+011F>", "<U+0120>", "<U+0121>", "<U+0122>", "<U+0123>", "<U+0124>", "<U+0125>",
     "<U+0126>", "<U+0127>", "<U+0128>", "<U+0129>", "<U+012A>", "<U+012B>", "<U+012C>",
     "<U+012D>", "<U+012E>", "<U+012F>", "<U+0130>", "<U+0131>", "<U+0132>", "<U+0133>",
     "<U+0134>", "<U+0135>", "<U+0136>", "<U+0137>", "<U+0138>", "<U+0139>", "<U+013A>",
     "<U+013B>", "<U+013C>", "<U+013D>", "<U+013E>", "<U+013F>", "<U+0140>", "<U+0141>",
     "<U+0142>", "<U+0143>", "<U+0144>", "<U+0145>", "<U+0146>", "<U+0147>", "<U+0148>",
     "<U+0149>", "<U+014A>", "<U+014B>", "<U+014C>", "<U+014D>", "<U+014E>", "<U+014F>",
     "<U+0150>", "<U+0151>", "<U+0152>", "<U+0153>", "<U+0154>", "<U+0155>", "<U+0156>",
     "<U+0157>", "<U+0158>", "<U+0159>", "<U+015A>", "<U+015B>", "<U+015C>", "<U+015D>",
     "<U+015E>", "<U+015F>", "<U+0160>", "<U+0161>", "<U+0162>", "<U+0163>", "<U+0164>",
     "<U+0165>", "<U+0166>", "<U+0167>", "<U+0168>", "<U+0169>", "<U+016A>", "<U+016B>",
     "<U+016C>", "<U+016D>", "<U+016E>", "<U+016F>", "<U+0170>", "<U+0171>", "<U+0172>",
     "<U+0173>", "<U+0174>", "<U+0175>", "<U+0176>", "<U+0177>", "<U+0178>", "<U+0179>",
     "<U+017A>", "<U+017B>", "<U+017C>", "<U+017D>", "<U+017E>", "<U+017F>", "ƀ", "Ɓ", "Ƃ", "ƃ",
     "Ƅ", "ƅ", "Ɔ", "Ƈ", "ƈ", "Ɖ", "Ɗ", "Ƌ", "ƌ", "ƍ", "Ǝ", "Ə", "Ɛ", "Ƒ", "ƒ", "Ɠ", "Ɣ", "ƕ",
     "Ɩ", "Ɨ", "Ƙ", "ƙ", "ƚ", "ƛ", "Ɯ", "Ɲ", "ƞ", "Ɵ", "Ơ", "ơ", "Ƣ", "ƣ", "Ƥ", "ƥ", "Ʀ", "Ƨ",
     "ƨ", "Ʃ", "ƪ", "ƫ", "Ƭ", "ƭ", "Ʈ", "Ư", "ư", "Ʊ", "Ʋ", "Ƴ", "ƴ", "Ƶ", "ƶ", "Ʒ", "Ƹ", "ƹ",
     "ƺ", "Ƽ", "ƽ", "ƾ", "ƿ", "Ǆ", "ǅ", "ǆ", "Ǉ", "ǈ", "ǉ", "Ǌ", "ǋ", "ǌ", "Ǎ", "ǎ", "Ǐ", "ǐ",
     "Ǒ", "ǒ", "Ǔ", "ǔ", "Ǖ", "ǖ", "Ǘ", "ǘ", "Ǚ", "ǚ", "Ǜ", "ǜ", "ǝ", "Ǟ", "ǟ", "Ǡ", "ǡ", "Ǣ",
     "ǣ", "Ǥ", "ǥ", "Ǧ", "ǧ", "Ǩ", "ǩ", "Ǫ", "ǫ", "Ǭ", "ǭ", "Ǯ", "ǯ", "ǰ", "Ǳ", "ǲ", "ǳ", "Ǵ",
     "ǵ", "Ƕ", "Ƿ", "Ǹ", "ǹ", "Ǻ", "ǻ", "Ǽ", "ǽ", "Ǿ", "ǿ", "<U+0200>", "<U+0201>", "<U+0202>",
     "<U+0203>", "<U+0204>", "<U+0205>", "<U+0206>", "<U+0207>", "<U+0208>", "<U+0209>",
     "<U+020A>", "<U+020B>", "<U+020C>", "<U+020D>", "<U+020E>", "<U+020F>", "<U+0210>",
     "<U+0211>", "<U+0212>", "<U+0213>", "<U+0214>", "<U+0215>", "<U+0216>", "<U+0217>",
     "<U+0218>", "<U+0219>", "<U+021A>", "<U+021B>", "<U+021C>", "<U+021D>", "<U+021E>",
     "<U+021F>", "<U+0220>", "<U+0221>", "<U+0222>", "<U+0223>", "<U+0224>", "<U+0225>",
     "<U+0226>", "<U+0227>", "<U+0228>", "<U+0229>", "<U+022A>", "<U+022B>", "<U+022C>",
     "<U+022D>", "<U+022E>", "<U+022F>", "<U+0230>", "<U+0231>", "<U+0232>", "<U+0233>",
     "<U+0234>", "<U+0235>", "<U+0236>", "<U+0237>", "<U+0238>", "<U+0239>", "<U+023A>",
     "<U+023B>", "<U+023C>", "<U+023D>", "<U+023E>", "<U+023F>", "<U+0240>", "<U+0241>",
     "<U+0242>", "<U+0243>", "<U+0244>", "<U+0245>", "<U+0246>", "<U+0247>", "<U+0248>",
     "<U+0249>", "<U+024A>", "<U+024B>", "<U+024C>", "<U+024D>", "<U+024E>", "<U+024F>",
     "<U+0250>", "<U+0251>", "<U+0252>", "<U+0253>", "<U+0254>", "<U+0255>", "<U+0256>",
     "<U+0257>", "<U+0258>", "<U+0259>", "<U+025A>", "<U+025B>", "<U+025C>", "<U+025D>",
     "<U+025E>", "<U+025F>", "<U+0260>", "<U+0261>", "<U+0262>", "<U+0263>", "<U+0264>",
     "<U+0265>", "<U+0266>", "<U+0267>", "<U+0268>", "<U+0269>", "<U+026A>", "<U+026B>",
     "<U+026C>", "<U+026D>", "<U+026E>", "<U+026F>", "<U+0270>", "<U+0271>", "<U+0272>",
     "<U+0273>", "<U+0274>", "<U+0275>", "<U+0276>", "<U+0277>", "<U+0278>", "<U+0279>",
     "<U+027A>", "<U+027B>", "<U+027C>", "<U+027D>", "<U+027E>", "<U+027F>", "ʀ", "ʁ", "ʂ", "ʃ",
     "ʄ", "ʅ", "ʆ", "ʇ", "ʈ", "ʉ", "ʊ", "ʋ", "ʌ", "ʍ", "ʎ", "ʏ", "ʐ", "ʑ", "ʒ", "ʓ", "ʖ", "ʗ",
     "ʘ", "ʙ", "ʚ", "ʛ", "ʜ", "ʝ", "ʞ", "ʟ", "ʠ", "ʡ", "ʢ", "ʣ", "ʤ", "ʥ", "ʦ", "ʧ", "ʨ", "ʩ",
     "ʪ", "ʫ", "ʬ", "ʭ", "ʮ", "ʯ", "<U+0370>", "<U+0371>", "<U+0372>", "<U+0373>", "<U+0376>",
     "<U+0377>", "<U+037B>", "<U+037C>", "<U+037D>", "<U+037F>", "Ά", "Έ", "Ή", "Ί", "Ό", "Ύ",
     "Ώ", "ΐ", "Α", "Β", "Γ", "Δ", "Ε", "Ζ", "Η", "Θ", "Ι", "Κ", "Λ", "Μ", "Ν", "Ξ", "Ο", "Π",
     "Ρ", "Σ", "Τ", "Υ", "Φ", "Χ", "Ψ", "Ω", "Ϊ", "Ϋ", "ά", "έ", "ή", "ί", "ΰ", "α", "β", "γ",
     "δ", "ε", "ζ", "η", "θ", "ι", "κ", "λ", "μ", "ν", "ξ", "ο", "π", "ρ", "ς", "σ", "τ", "υ",
     "φ", "χ", "ψ", "ω", "ϊ", "ϋ", "ό", "ύ", "ώ", "Ϗ", "ϐ", "ϑ", "ϒ", "ϓ", "ϔ", "ϕ", "ϖ", "ϗ",
     "Ϙ", "ϙ", "Ϛ", "ϛ", "Ϝ", "ϝ", "Ϟ", "ϟ", "Ϡ", "ϡ", "Ϣ", "ϣ", "Ϥ", "ϥ", "Ϧ", "ϧ", "Ϩ", "ϩ",
     "Ϫ", "ϫ", "Ϭ", "ϭ", "Ϯ", "ϯ", "ϰ", "ϱ", "ϲ", "ϳ", "ϴ", "ϵ", "Ϸ", "ϸ", "Ϲ", "Ϻ", "ϻ", "ϼ",
     "Ͻ", "Ͼ", "Ͽ", "<U+0400>", "<U+0401>", "<U+0402>", "<U+0403>", "<U+0404>", "<U+0405>",
     "<U+0406>", "<U+0407>", "<U+0408>", "<U+0409>", "<U+040A>", "<U+040B>", "<U+040C>",
     "<U+040D>", "<U+040E>", "<U+040F>", "<U+0410>", "<U+0411>", "<U+0412>", "<U+0413>",
     "<U+0414>", "<U+0415>", "<U+0416>", "<U+0417>", "<U+0418>", "<U+0419>", "<U+041A>",
     "<U+041B>", "<U+041C>", "<U+041D>", "<U+041E>", "<U+041F>", "<U+0420>", "<U+0421>",
     "<U+0422>", "<U+0423>", "<U+0424>", "<U+0425>", "<U+0426>", "<U+0427>", "<U+0428>",
     "<U+0429>", "<U+042A>", "<U+042B>", "<U+042C>", "<U+042D>", "<U+042E>", "<U+042F>",
     "<U+0430>", "<U+0431>", "<U+0432>", "<U+0433>", "<U+0434>", "<U+0435>", "<U+0436>",
     "<U+0437>", "<U+0438>", "<U+0439>", "<U+043A>", "<U+043B>", "<U+043C>", "<U+043D>",
     "<U+043E>", "<U+043F>", "<U+0440>", "<U+0441>", "<U+0442>", "<U+0443>", "<U+0444>",
     "<U+0445>", "<U+0446>", "<U+0447>", "<U+0448>", "<U+0449>", "<U+044A>", "<U+044B>",
     "<U+044C>", "<U+044D>", "<U+044E>", "<U+044F>", "<U+0450>", "<U+0451>", "<U+0452>",
     "<U+0453>", "<U+0454>", "<U+0455>", "<U+0456>", "<U+0457>", "<U+0458>", "<U+0459>",
     "<U+045A>", "<U+045B>", "<U+045C>", "<U+045D>", "<U+045E>", "<U+045F>", "<U+0460>",
     "<U+0461>", "<U+0462>", "<U+0463>", "<U+0464>", "<U+0465>", "<U+0466>", "<U+0467>",
     "<U+0468>", "<U+0469>", "<U+046A>", "<U+046B>", "<U+046C>", "<U+046D>", "<U+046E>",
     "<U+046F>", "<U+0470>", "<U+0471>", "<U+0472>", "<U+0473>", "<U+0474>", "<U+0475>",
     "<U+0476>", "<U+0477>", "<U+0478>", "<U+0479>", "<U+047A>", "<U+047B>", "<U+047C>",
     "<U+047D>", "<U+047E>", "<U+047F>", "Ҁ", "ҁ", "Ҋ", "ҋ", "Ҍ", "ҍ", "Ҏ", "ҏ", "Ґ", "ґ", "Ғ",
     "ғ", "Ҕ", "ҕ", "Җ", "җ", "Ҙ", "ҙ", "Қ", "қ", "Ҝ", "ҝ", "Ҟ", "ҟ", "Ҡ", "ҡ", "Ң", "ң", "Ҥ",
     "ҥ", "Ҧ", "ҧ", "Ҩ", "ҩ", "Ҫ", "ҫ", "Ҭ", "ҭ", "Ү", "ү", "Ұ", "ұ", "Ҳ", "ҳ", "Ҵ", "ҵ", "Ҷ",
     "ҷ", "Ҹ", "ҹ", "Һ", "һ", "Ҽ", "ҽ", "Ҿ", "ҿ", "Ӏ", "Ӂ", "ӂ", "Ӄ", "ӄ", "Ӆ", "ӆ", "Ӈ", "ӈ",
     "Ӊ", "ӊ", "Ӌ", "ӌ", "Ӎ", "ӎ", "ӏ", "Ӑ", "ӑ", "Ӓ", "ӓ", "Ӕ", "ӕ", "Ӗ", "ӗ", "Ә", "ә", "Ӛ",
     "ӛ", "Ӝ", "ӝ", "Ӟ", "ӟ", "Ӡ", "ӡ", "Ӣ", "ӣ", "Ӥ", "ӥ", "Ӧ", "ӧ", "Ө", "ө", "Ӫ", "ӫ", "Ӭ",
     "ӭ", "Ӯ", "ӯ", "Ӱ", "ӱ", "Ӳ", "ӳ", "Ӵ", "ӵ", "Ӷ", "ӷ", "Ӹ", "ӹ", "Ӻ", "ӻ", "Ӽ", "ӽ", "Ӿ",
     "ӿ", "<U+0500>", "<U+0501>", "<U+0502>", "<U+0503>", "<U+0504>", "<U+0505>", "<U+0506>",
     "<U+0507>", "<U+0508>", "<U+0509>", "<U+050A>", "<U+050B>", "<U+050C>", "<U+050D>",
     "<U+050E>", "<U+050F>", "<U+0510>", "<U+0511>", "<U+0512>", "<U+0513>", "<U+0514>",
     "<U+0515>", "<U+0516>", "<U+0517>", "<U+0518>", "<U+0519>", "<U+051A>", "<U+051B>",
     "<U+051C>", "<U+051D>", "<U+051E>", "<U+051F>", "<U+0520>", "<U+0521>", "<U+0522>",
     "<U+0523>", "<U+0524>", "<U+0525>", "<U+0526>", "<U+0527>", "<U+0528>", "<U+0529>",
     "<U+052A>", "<U+052B>", "<U+052C>", "<U+052D>", "<U+052E>", "<U+052F>", "<U+0531>",
     "<U+0532>", "<U+0533>", "<U+0534>", "<U+0535>", "<U+0536>", "<U+0537>", "<U+0538>",
     "<U+0539>", "<U+053A>", "<U+053B>", "<U+053C>", "<U+053D>", "<U+053E>", "<U+053F>",
     "<U+0540>", "<U+0541>", "<U+0542>", "<U+0543>", "<U+0544>", "<U+0545>", "<U+0546>",
     "<U+0547>", "<U+0548>", "<U+0549>", "<U+054A>", "<U+054B>", "<U+054C>", "<U+054D>",
     "<U+054E>", "<U+054F>", "<U+0550>", "<U+0551>", "<U+0552>", "<U+0553>", "<U+0554>",
     "<U+0555>", "<U+0556>", "<U+0560>", "<U+0561>", "<U+0562>", "<U+0563>", "<U+0564>",
     "<U+0565>", "<U+0566>", "<U+0567>", "<U+0568>", "<U+0569>", "<U+056A>", "<U+056B>",
     "<U+056C>", "<U+056D>", "<U+056E>", "<U+056F>", "<U+0570>", "<U+0571>", "<U+0572>",
     "<U+0573>", "<U+0574>", "<U+0575>", "<U+0576>", "<U+0577>", "<U+0578>", "<U+0579>",
     "<U+057A>", "<U+057B>", "<U+057C>", "<U+057D>", "<U+057E>", "<U+057F>", "ր", "ց", "ւ", "փ",
     "ք", "օ", "ֆ", "և", "ֈ", "Ⴀ", "Ⴁ", "Ⴂ", "Ⴃ", "Ⴄ", "Ⴅ", "Ⴆ", "Ⴇ", "Ⴈ", "Ⴉ", "Ⴊ", "Ⴋ", "Ⴌ",
     "Ⴍ", "Ⴎ", "Ⴏ", "Ⴐ", "Ⴑ", "Ⴒ", "Ⴓ", "Ⴔ", "Ⴕ", "Ⴖ", "Ⴗ", "Ⴘ", "Ⴙ", "Ⴚ", "Ⴛ", "Ⴜ", "Ⴝ", "Ⴞ",
     "Ⴟ", "Ⴠ", "Ⴡ", "Ⴢ", "Ⴣ", "Ⴤ", "Ⴥ", "Ⴧ", "Ⴭ", "ა", "ბ", "გ", "დ", "ე", "ვ", "ზ", "თ", "ი",
     "კ", "ლ", "მ", "ნ", "ო", "პ", "ჟ", "რ", "ს", "ტ", "უ", "ფ", "ქ", "ღ", "ყ", "შ", "ჩ", "ც",
     "ძ", "წ", "ჭ", "ხ", "ჯ", "ჰ", "ჱ", "ჲ", "ჳ", "ჴ", "ჵ", "ჶ", "ჷ", "ჸ", "ჹ", "ჺ", "ჽ", "ჾ",
     "ჿ", "Ꭰ", "Ꭱ", "Ꭲ", "Ꭳ", "Ꭴ", "Ꭵ", "Ꭶ", "Ꭷ", "Ꭸ", "Ꭹ", "Ꭺ", "Ꭻ", "Ꭼ", "Ꭽ", "Ꭾ", "Ꭿ", "Ꮀ",
     "Ꮁ", "Ꮂ", "Ꮃ", "Ꮄ", "Ꮅ", "Ꮆ", "Ꮇ", "Ꮈ", "Ꮉ", "Ꮊ", "Ꮋ", "Ꮌ", "Ꮍ", "Ꮎ", "Ꮏ", "Ꮐ", "Ꮑ", "Ꮒ",
     "Ꮓ", "Ꮔ", "Ꮕ", "Ꮖ", "Ꮗ", "Ꮘ", "Ꮙ", "Ꮚ", "Ꮛ", "Ꮜ", "Ꮝ", "Ꮞ", "Ꮟ", "Ꮠ", "Ꮡ", "Ꮢ", "Ꮣ", "Ꮤ",
     "Ꮥ", "Ꮦ", "Ꮧ", "Ꮨ", "Ꮩ", "Ꮪ", "Ꮫ", "Ꮬ", "Ꮭ", "Ꮮ", "Ꮯ", "Ꮰ", "Ꮱ", "Ꮲ", "Ꮳ", "Ꮴ", "Ꮵ", "Ꮶ",
     "Ꮷ", "Ꮸ", "Ꮹ", "Ꮺ", "Ꮻ", "Ꮼ", "Ꮽ", "Ꮾ", "Ꮿ", "Ᏸ", "Ᏹ", "Ᏺ", "Ᏻ", "Ᏼ", "Ᏽ", "ᏸ", "ᏹ", "ᏺ",
     "ᏻ", "ᏼ", "ᏽ", "ᲀ", "ᲁ", "ᲂ", "ᲃ", "ᲄ", "ᲅ", "ᲆ", "ᲇ", "ᲈ", "<U+1C89>", "<U+1C8A>", "Ა",
     "Ბ", "Გ", "Დ", "Ე", "Ვ", "Ზ", "Თ", "Ი", "Კ", "Ლ", "Მ", "Ნ", "Ო", "Პ", "Ჟ", "Რ", "Ს", "Ტ",
     "Უ", "Ფ", "Ქ", "Ღ", "Ყ", "Შ", "Ჩ", "Ც", "Ძ", "Წ", "Ჭ", "Ხ", "Ჯ", "Ჰ", "Ჱ", "Ჲ", "Ჳ", "Ჴ",
     "Ჵ", "Ჶ", "Ჷ", "Ჸ", "Ჹ", "Ჺ", "Ჽ", "Ჾ", "Ჿ", "<U+1D00>", "<U+1D01>", "<U+1D02>",
     "<U+1D03>", "<U+1D04>", "<U+1D05>", "<U+1D06>", "<U+1D07>", "<U+1D08>", "<U+1D09>",
     "<U+1D0A>", "<U+1D0B>", "<U+1D0C>", "<U+1D0D>", "<U+1D0E>", "<U+1D0F>", "<U+1D10>",
     "<U+1D11>", "<U+1D12>", "<U+1D13>", "<U+1D14>", "<U+1D15>", "<U+1D16>", "<U+1D17>",
     "<U+1D18>", "<U+1D19>", "<U+1D1A>", "<U+1D1B>", "<U+1D1C>", "<U+1D1D>", "<U+1D1E>",
     "<U+1D1F>", "<U+1D20>", "<U+1D21>", "<U+1D22>", "<U+1D23>", "<U+1D24>", "<U+1D25>",
     "<U+1D26>", "<U+1D27>", "<U+1D28>", "<U+1D29>", "<U+1D2A>", "<U+1D2B>", "<U+1D6B>",
     "<U+1D6C>", "<U+1D6D>", "<U+1D6E>", "<U+1D6F>", "<U+1D70>", "<U+1D71>", "<U+1D72>",
     "<U+1D73>", "<U+1D74>", "<U+1D75>", "<U+1D76>", "<U+1D77>", "<U+1D79>", "<U+1D7A>",
     "<U+1D7B>", "<U+1D7C>", "<U+1D7D>", "<U+1D7E>", "<U+1D7F>", "ᶀ", "ᶁ", "ᶂ", "ᶃ", "ᶄ", "ᶅ",
     "ᶆ", "ᶇ", "ᶈ", "ᶉ", "ᶊ", "ᶋ", "ᶌ", "ᶍ", "ᶎ", "ᶏ", "ᶐ", "ᶑ", "ᶒ", "ᶓ", "ᶔ", "ᶕ", "ᶖ", "ᶗ",
     "ᶘ", "ᶙ", "ᶚ", "<U+1E00>", "<U+1E01>", "<U+1E02>", "<U+1E03>", "<U+1E04>", "<U+1E05>",
     "<U+1E06>", "<U+1E07>", "<U+1E08>", "<U+1E09>", "<U+1E0A>", "<U+1E0B>", "<U+1E0C>",
     "<U+1E0D>", "<U+1E0E>", "<U+1E0F>", "<U+1E10>", "<U+1E11>", "<U+1E12>", "<U+1E13>",
     "<U+1E14>", "<U+1E15>", "<U+1E16>", "<U+1E17>", "<U+1E18>", "<U+1E19>", "<U+1E1A>",
     "<U+1E1B>", "<U+1E1C>", "<U+1E1D>", "<U+1E1E>", "<U+1E1F>", "<U+1E20>", "<U+1E21>",
     "<U+1E22>", "<U+1E23>", "<U+1E24>", "<U+1E25>", "<U+1E26>", "<U+1E27>", "<U+1E28>",
     "<U+1E29>", "<U+1E2A>", "<U+1E2B>", "<U+1E2C>", "<U+1E2D>", "<U+1E2E>", "<U+1E2F>",
     "<U+1E30>", "<U+1E31>", "<U+1E32>", "<U+1E33>", "<U+1E34>", "<U+1E35>", "<U+1E36>",
     "<U+1E37>", "<U+1E38>", "<U+1E39>", "<U+1E3A>", "<U+1E3B>", "<U+1E3C>", "<U+1E3D>",
     "<U+1E3E>", "<U+1E3F>", "<U+1E40>", "<U+1E41>", "<U+1E42>", "<U+1E43>", "<U+1E44>",
     "<U+1E45>", "<U+1E46>", "<U+1E47>", "<U+1E48>", "<U+1E49>", "<U+1E4A>", "<U+1E4B>",
     "<U+1E4C>", "<U+1E4D>", "<U+1E4E>", "<U+1E4F>", "<U+1E50>", "<U+1E51>", "<U+1E52>",
     "<U+1E53>", "<U+1E54>", "<U+1E55>", "<U+1E56>", "<U+1E57>", "<U+1E58>", "<U+1E59>",
     "<U+1E5A>", "<U+1E5B>", "<U+1E5C>", "<U+1E5D>", "<U+1E5E>", "<U+1E5F>", "<U+1E60>",
     "<U+1E61>", "<U+1E62>", "<U+1E63>", "<U+1E64>", "<U+1E65>", "<U+1E66>", "<U+1E67>",
     "<U+1E68>", "<U+1E69>", "<U+1E6A>", "<U+1E6B>", "<U+1E6C>", "<U+1E6D>", "<U+1E6E>",
     "<U+1E6F>", "<U+1E70>", "<U+1E71>", "<U+1E72>", "<U+1E73>", "<U+1E74>", "<U+1E75>",
     "<U+1E76>", "<U+1E77>", "<U+1E78>", "<U+1E79>", "<U+1E7A>", "<U+1E7B>", "<U+1E7C>",
     "<U+1E7D>", "<U+1E7E>", "<U+1E7F>", "Ẁ", "ẁ", "Ẃ", "ẃ", "Ẅ", "ẅ", "Ẇ", "ẇ", "Ẉ", "ẉ", "Ẋ",
     "ẋ", "Ẍ", "ẍ", "Ẏ", "ẏ", "Ẑ", "ẑ", "Ẓ", "ẓ", "Ẕ", "ẕ", "ẖ", "ẗ", "ẘ", "ẙ", "ẚ", "ẛ", "ẜ",
     "ẝ", "ẞ", "ẟ", "Ạ", "ạ", "Ả", "ả", "Ấ", "ấ", "Ầ", "ầ", "Ẩ", "ẩ", "Ẫ", "ẫ", "Ậ", "ậ", "Ắ",
     "ắ", "Ằ", "ằ", "Ẳ", "ẳ", "Ẵ", "ẵ", "Ặ", "ặ", "Ẹ", "ẹ", "Ẻ", "ẻ", "Ẽ", "ẽ", "Ế", "ế", "Ề",
     "ề", "Ể", "ể", "Ễ", "ễ", "Ệ", "ệ", "Ỉ", "ỉ", "Ị", "ị", "Ọ", "ọ", "Ỏ", "ỏ", "Ố", "ố", "Ồ",
     "ồ", "Ổ", "ổ", "Ỗ", "ỗ", "Ộ", "ộ", "Ớ", "ớ", "Ờ", "ờ", "Ở", "ở", "Ỡ", "ỡ", "Ợ", "ợ", "Ụ",
     "ụ", "Ủ", "ủ", "Ứ", "ứ", "Ừ", "ừ", "Ử", "ử", "Ữ", "ữ", "Ự", "ự", "Ỳ", "ỳ", "Ỵ", "ỵ", "Ỷ",
     "ỷ", "Ỹ", "ỹ", "Ỻ", "ỻ", "Ỽ", "ỽ", "Ỿ", "ỿ", "<U+1F00>", "<U+1F01>", "<U+1F02>",
     "<U+1F03>", "<U+1F04>", "<U+1F05>", "<U+1F06>", "<U+1F07>", "<U+1F08>", "<U+1F09>",
     "<U+1F0A>", "<U+1F0B>", "<U+1F0C>", "<U+1F0D>", "<U+1F0E>", "<U+1F0F>", "<U+1F10>",
     "<U+1F11>", "<U+1F12>", "<U+1F13>", "<U+1F14>", "<U+1F15>", "<U+1F18>", "<U+1F19>",
     "<U+1F1A>", "<U+1F1B>", "<U+1F1C>", "<U+1F1D>", "<U+1F20>", "<U+1F21>", "<U+1F22>",
     "<U+1F23>", "<U+1F24>", "<U+1F25>", "<U+1F26>", "<U+1F27>", "<U+1F28>", "<U+1F29>",
     "<U+1F2A>", "<U+1F2B>", "<U+1F2C>", "<U+1F2D>", "<U+1F2E>", "<U+1F2F>", "<U+1F30>",
     "<U+1F31>", "<U+1F32>", "<U+1F33>", "<U+1F34>", "<U+1F35>", "<U+1F36>", "<U+1F37>",
     "<U+1F38>", "<U+1F39>", "<U+1F3A>", "<U+1F3B>", "<U+1F3C>", "<U+1F3D>", "<U+1F3E>",
     "<U+1F3F>", "<U+1F40>", "<U+1F41>", "<U+1F42>", "<U+1F43>", "<U+1F44>", "<U+1F45>",
     "<U+1F48>", "<U+1F49>", "<U+1F4A>", "<U+1F4B>", "<U+1F4C>", "<U+1F4D>", "<U+1F50>",
     "<U+1F51>", "<U+1F52>", "<U+1F53>", "<U+1F54>", "<U+1F55>", "<U+1F56>", "<U+1F57>",
     "<U+1F59>", "<U+1F5B>", "<U+1F5D>", "<U+1F5F>", "<U+1F60>", "<U+1F61>", "<U+1F62>",
     "<U+1F63>", "<U+1F64>", "<U+1F65>", "<U+1F66>", "<U+1F67>", "<U+1F68>", "<U+1F69>",
     "<U+1F6A>", "<U+1F6B>", "<U+1F6C>", "<U+1F6D>", "<U+1F6E>", "<U+1F6F>", "<U+1F70>",
     "<U+1F71>", "<U+1F72>", "<U+1F73>", "<U+1F74>", "<U+1F75>", "<U+1F76>", "<U+1F77>",
     "<U+1F78>", "<U+1F79>", "<U+1F7A>", "<U+1F7B>", "<U+1F7C>", "<U+1F7D>", "ᾀ", "ᾁ", "ᾂ", "ᾃ",
     "ᾄ", "ᾅ", "ᾆ", "ᾇ", "ᾈ", "ᾉ", "ᾊ", "ᾋ", "ᾌ", "ᾍ", "ᾎ", "ᾏ", "ᾐ", "ᾑ", "ᾒ", "ᾓ", "ᾔ", "ᾕ",
     "ᾖ", "ᾗ", "ᾘ", "ᾙ", "ᾚ", "ᾛ", "ᾜ", "ᾝ", "ᾞ", "ᾟ", "ᾠ", "ᾡ", "ᾢ", "ᾣ", "ᾤ", "ᾥ", "ᾦ", "ᾧ",
     "ᾨ", "ᾩ", "ᾪ", "ᾫ", "ᾬ", "ᾭ", "ᾮ", "ᾯ", "ᾰ", "ᾱ", "ᾲ", "ᾳ", "ᾴ", "ᾶ", "ᾷ", "Ᾰ", "Ᾱ", "Ὰ",
     "Ά", "ᾼ", "ι", "ῂ", "ῃ", "ῄ", "ῆ", "ῇ", "Ὲ", "Έ", "Ὴ", "Ή", "ῌ", "ῐ", "ῑ", "ῒ", "ΐ", "ῖ",
     "ῗ", "Ῐ", "Ῑ", "Ὶ", "Ί", "ῠ", "ῡ", "ῢ", "ΰ", "ῤ", "ῥ", "ῦ", "ῧ", "Ῠ", "Ῡ", "Ὺ", "Ύ", "Ῥ",
     "ῲ", "ῳ", "ῴ", "ῶ", "ῷ", "Ὸ", "Ό", "Ὼ", "Ώ", "ῼ", "<U+2102>", "<U+2107>", "<U+210A>",
     "<U+210B>", "<U+210C>", "<U+210D>", "<U+210E>", "<U+210F>", "<U+2110>", "<U+2111>",
     "<U+2112>", "<U+2113>", "<U+2115>", "<U+2119>", "<U+211A>", "<U+211B>", "<U+211C>",
     "<U+211D>", "<U+2124>", "<U+2126>", "<U+2128>", "<U+212A>", "<U+212B>", "<U+212C>",
     "<U+212D>", "<U+212F>", "<U+2130>", "<U+2131>", "<U+2132>", "<U+2133>", "<U+2134>",
     "<U+2139>", "<U+213C>", "<U+213D>", "<U+213E>", "<U+213F>", "<U+2145>", "<U+2146>",
     "<U+2147>", "<U+2148>", "<U+2149>", "<U+214E>", "<U+2160>", "<U+2161>", "<U+2162>",
     "<U+2163>", "<U+2164>", "<U+2165>", "<U+2166>", "<U+2167>", "<U+2168>", "<U+2169>",
     "<U+216A>", "<U+216B>", "<U+216C>", "<U+216D>", "<U+216E>", "<U+216F>", "<U+2170>",
     "<U+2171>", "<U+2172>", "<U+2173>", "<U+2174>", "<U+2175>", "<U+2176>", "<U+2177>",
     "<U+2178>", "<U+2179>", "<U+217A>", "<U+217B>", "<U+217C>", "<U+217D>", "<U+217E>",
     "<U+217F>", "Ↄ", "ↄ", "Ⓐ", "Ⓑ", "Ⓒ", "Ⓓ", "Ⓔ", "Ⓕ", "Ⓖ", "Ⓗ", "Ⓘ", "Ⓙ", "Ⓚ", "Ⓛ", "Ⓜ", "Ⓝ",
     "Ⓞ", "Ⓟ", "Ⓠ", "Ⓡ", "Ⓢ", "Ⓣ", "Ⓤ", "Ⓥ", "Ⓦ", "Ⓧ", "Ⓨ", "Ⓩ", "ⓐ", "ⓑ", "ⓒ", "ⓓ", "ⓔ", "ⓕ",
     "ⓖ", "ⓗ", "ⓘ", "ⓙ", "ⓚ", "ⓛ", "ⓜ", "ⓝ", "ⓞ", "ⓟ", "ⓠ", "ⓡ", "ⓢ", "ⓣ", "ⓤ", "ⓥ", "ⓦ", "ⓧ",
     "ⓨ", "ⓩ", "<U+2C00>", "<U+2C01>", "<U+2C02>", "<U+2C03>", "<U+2C04>", "<U+2C05>",
     "<U+2C06>", "<U+2C07>", "<U+2C08>", "<U+2C09>", "<U+2C0A>", "<U+2C0B>", "<U+2C0C>",
     "<U+2C0D>", "<U+2C0E>", "<U+2C0F>", "<U+2C10>", "<U+2C11>", "<U+2C12>", "<U+2C13>",
     "<U+2C14>", "<U+2C15>", "<U+2C16>", "<U+2C17>", "<U+2C18>", "<U+2C19>", "<U+2C1A>",
     "<U+2C1B>", "<U+2C1C>", "<U+2C1D>", "<U+2C1E>", "<U+2C1F>", "<U+2C20>", "<U+2C21>",
     "<U+2C22>", "<U+2C23>", "<U+2C24>", "<U+2C25>", "<U+2C26>", "<U+2C27>", "<U+2C28>",
     "<U+2C29>", "<U+2C2A>", "<U+2C2B>", "<U+2C2C>", "<U+2C2D>", "<U+2C2E>", "<U+2C2F>",
     "<U+2C30>", "<U+2C31>", "<U+2C32>", "<U+2C33>", "<U+2C34>", "<U+2C35>", "<U+2C36>",
     "<U+2C37>", "<U+2C38>", "<U+2C39>", "<U+2C3A>", "<U+2C3B>", "<U+2C3C>", "<U+2C3D>",
     "<U+2C3E>", "<U+2C3F>", "<U+2C40>", "<U+2C41>", "<U+2C42>", "<U+2C43>", "<U+2C44>",
     "<U+2C45>", "<U+2C46>", "<U+2C47>", "<U+2C48>", "<U+2C49>", "<U+2C4A>", "<U+2C4B>",
     "<U+2C4C>", "<U+2C4D>", "<U+2C4E>", "<U+2C4F>", "<U+2C50>", "<U+2C51>", "<U+2C52>",
     "<U+2C53>", "<U+2C54>", "<U+2C55>", "<U+2C56>", "<U+2C57>", "<U+2C58>", "<U+2C59>",
     "<U+2C5A>", "<U+2C5B>", "<U+2C5C>", "<U+2C5D>", "<U+2C5E>", "<U+2C5F>", "<U+2C60>",
     "<U+2C61>", "<U+2C62>", "<U+2C63>", "<U+2C64>", "<U+2C65>", "<U+2C66>", "<U+2C67>",
     "<U+2C68>", "<U+2C69>", "<U+2C6A>", "<U+2C6B>", "<U+2C6C>", "<U+2C6D>", "<U+2C6E>",
     "<U+2C6F>", "<U+2C70>", "<U+2C71>", "<U+2C72>", "<U+2C73>", "<U+2C74>", "<U+2C75>",
     "<U+2C76>", "<U+2C77>", "<U+2C78>", "<U+2C79>", "<U+2C7A>", "<U+2C7B>", "<U+2C7E>",
     "<U+2C7F>", "Ⲁ", "ⲁ", "Ⲃ", "ⲃ", "Ⲅ", "ⲅ", "Ⲇ", "ⲇ", "Ⲉ", "ⲉ", "Ⲋ", "ⲋ", "Ⲍ", "ⲍ", "Ⲏ", "ⲏ",
     "Ⲑ", "ⲑ", "Ⲓ", "ⲓ", "Ⲕ", "ⲕ", "Ⲗ", "ⲗ", "Ⲙ", "ⲙ", "Ⲛ", "ⲛ", "Ⲝ", "ⲝ", "Ⲟ", "ⲟ", "Ⲡ", "ⲡ",
     "Ⲣ", "ⲣ", "Ⲥ", "ⲥ", "Ⲧ", "ⲧ", "Ⲩ", "ⲩ", "Ⲫ", "ⲫ", "Ⲭ", "ⲭ", "Ⲯ", "ⲯ", "Ⲱ", "ⲱ", "Ⲳ", "ⲳ",
     "Ⲵ", "ⲵ", "Ⲷ", "ⲷ", "Ⲹ", "ⲹ", "Ⲻ", "ⲻ", "Ⲽ", "ⲽ", "Ⲿ", "ⲿ", "Ⳁ", "ⳁ", "Ⳃ", "ⳃ", "Ⳅ", "ⳅ",
     "Ⳇ", "ⳇ", "Ⳉ", "ⳉ", "Ⳋ", "ⳋ", "Ⳍ", "ⳍ", "Ⳏ", "ⳏ", "Ⳑ", "ⳑ", "Ⳓ", "ⳓ", "Ⳕ", "ⳕ", "Ⳗ", "ⳗ",
     "Ⳙ", "ⳙ", "Ⳛ", "ⳛ", "Ⳝ", "ⳝ", "Ⳟ", "ⳟ", "Ⳡ", "ⳡ", "Ⳣ", "ⳣ", "ⳤ", "Ⳬ", "ⳬ", "Ⳮ", "ⳮ", "Ⳳ",
     "ⳳ", "<U+2D00>", "<U+2D01>", "<U+2D02>", "<U+2D03>", "<U+2D04>", "<U+2D05>", "<U+2D06>",
     "<U+2D07>", "<U+2D08>", "<U+2D09>", "<U+2D0A>", "<U+2D0B>", "<U+2D0C>", "<U+2D0D>",
     "<U+2D0E>", "<U+2D0F>", "<U+2D10>", "<U+2D11>", "<U+2D12>", "<U+2D13>", "<U+2D14>",
     "<U+2D15>", "<U+2D16>", "<U+2D17>", "<U+2D18>", "<U+2D19>", "<U+2D1A>", "<U+2D1B>",
     "<U+2D1C>", "<U+2D1D>", "<U+2D1E>", "<U+2D1F>", "<U+2D20>", "<U+2D21>", "<U+2D22>",
     "<U+2D23>", "<U+2D24>", "<U+2D25>", "<U+2D27>", "<U+2D2D>", "<U+A640>", "<U+A641>",
     "<U+A642>", "<U+A643>", "<U+A644>", "<U+A645>", "<U+A646>", "<U+A647>", "<U+A648>",
     "<U+A649>", "<U+A64A>", "<U+A64B>", "<U+A64C>", "<U+A64D>", "<U+A64E>", "<U+A64F>",
     "<U+A650>", "<U+A651>", "<U+A652>", "<U+A653>", "<U+A654>", "<U+A655>", "<U+A656>",
     "<U+A657>", "<U+A658>", "<U+A659>", "<U+A65A>", "<U+A65B>", "<U+A65C>", "<U+A65D>",
     "<U+A65E>", "<U+A65F>", "<U+A660>", "<U+A661>", "<U+A662>", "<U+A663>", "<U+A664>",
     "<U+A665>", "<U+A666>", "<U+A667>", "<U+A668>", "<U+A669>", "<U+A66A>", "<U+A66B>",
     "<U+A66C>", "<U+A66D>", "Ꚁ", "ꚁ", "Ꚃ", "ꚃ", "Ꚅ", "ꚅ", "Ꚇ", "ꚇ", "Ꚉ", "ꚉ", "Ꚋ", "ꚋ", "Ꚍ",
     "ꚍ", "Ꚏ", "ꚏ", "Ꚑ", "ꚑ", "Ꚓ", "ꚓ", "Ꚕ", "ꚕ", "Ꚗ", "ꚗ", "Ꚙ", "ꚙ", "Ꚛ", "ꚛ", "<U+A722>",
     "<U+A723>", "<U+A724>", "<U+A725>", "<U+A726>", "<U+A727>", "<U+A728>", "<U+A729>",
     "<U+A72A>", "<U+A72B>", "<U+A72C>", "<U+A72D>", "<U+A72E>", "<U+A72F>", "<U+A730>",
     "<U+A731>", "<U+A732>", "<U+A733>", "<U+A734>", "<U+A735>", "<U+A736>", "<U+A737>",
     "<U+A738>", "<U+A739>", "<U+A73A>", "<U+A73B>", "<U+A73C>", "<U+A73D>", "<U+A73E>",
     "<U+A73F>", "<U+A740>", "<U+A741>", "<U+A742>", "<U+A743>", "<U+A744>", "<U+A745>",
     "<U+A746>", "<U+A747>", "<U+A748>", "<U+A749>", "<U+A74A>", "<U+A74B>", "<U+A74C>",
     "<U+A74D>", "<U+A74E>", "<U+A74F>", "<U+A750>", "<U+A751>", "<U+A752>", "<U+A753>",
     "<U+A754>", "<U+A755>", "<U+A756>", "<U+A757>", "<U+A758>", "<U+A759>", "<U+A75A>",
     "<U+A75B>", "<U+A75C>", "<U+A75D>", "<U+A75E>", "<U+A75F>", "<U+A760>", "<U+A761>",
     "<U+A762>", "<U+A763>", "<U+A764>", "<U+A765>", "<U+A766>", "<U+A767>", "<U+A768>",
     "<U+A769>", "<U+A76A>", "<U+A76B>", "<U+A76C>", "<U+A76D>", "<U+A76E>", "<U+A76F>",
     "<U+A771>", "<U+A772>", "<U+A773>", "<U+A774>", "<U+A775>", "<U+A776>", "<U+A777>",
     "<U+A778>", "<U+A779>", "<U+A77A>", "<U+A77B>", "<U+A77C>", "<U+A77D>", "<U+A77E>",
     "<U+A77F>", "Ꞁ", "ꞁ", "Ꞃ", "ꞃ", "Ꞅ", "ꞅ", "Ꞇ", "ꞇ", "Ꞌ", "ꞌ", "Ɥ", "ꞎ", "Ꞑ", "ꞑ", "Ꞓ", "ꞓ",
     "ꞔ", "ꞕ", "Ꞗ", "ꞗ", "Ꞙ", "ꞙ", "Ꞛ", "ꞛ", "Ꞝ", "ꞝ", "Ꞟ", "ꞟ", "Ꞡ", "ꞡ", "Ꞣ", "ꞣ", "Ꞥ", "ꞥ",
     "Ꞧ", "ꞧ", "Ꞩ", "ꞩ", "Ɦ", "Ɜ", "Ɡ", "Ɬ", "Ɪ", "ꞯ", "Ʞ", "Ʇ", "Ʝ", "Ꭓ", "Ꞵ", "ꞵ", "Ꞷ", "ꞷ",
     "Ꞹ", "ꞹ", "Ꞻ", "ꞻ", "Ꞽ", "ꞽ", "Ꞿ", "ꞿ", "Ꟁ", "ꟁ", "Ꟃ", "ꟃ", "Ꞔ", "Ʂ", "Ᶎ", "Ꟈ", "ꟈ", "Ꟊ",
     "ꟊ", "<U+A7CB>", "<U+A7CC>", "<U+A7CD>", "<U+A7CE>", "<U+A7CF>", "Ꟑ", "ꟑ", "<U+A7D2>", "ꟓ",
     "<U+A7D4>", "ꟕ", "Ꟗ", "ꟗ", "Ꟙ", "ꟙ", "<U+A7DA>", "<U+A7DB>", "<U+A7DC>", "Ꟶ", "ꟶ", "ꟺ",
     "<U+AB30>", "<U+AB31>", "<U+AB32>", "<U+AB33>", "<U+AB34>", "<U+AB35>", "<U+AB36>",
     "<U+AB37>", "<U+AB38>", "<U+AB39>", "<U+AB3A>", "<U+AB3B>", "<U+AB3C>", "<U+AB3D>",
     "<U+AB3E>", "<U+AB3F>", "<U+AB40>", "<U+AB41>", "<U+AB42>", "<U+AB43>", "<U+AB44>",
     "<U+AB45>", "<U+AB46>", "<U+AB47>", "<U+AB48>", "<U+AB49>", "<U+AB4A>", "<U+AB4B>",
     "<U+AB4C>", "<U+AB4D>", "<U+AB4E>", "<U+AB4F>", "<U+AB50>", "<U+AB51>", "<U+AB52>",
     "<U+AB53>", "<U+AB54>", "<U+AB55>", "<U+AB56>", "<U+AB57>", "<U+AB58>", "<U+AB59>",
     "<U+AB5A>", "<U+AB60>", "<U+AB61>", "<U+AB62>", "<U+AB63>", "<U+AB64>", "<U+AB65>",
     "<U+AB66>", "<U+AB67>", "<U+AB68>", "<U+AB70>", "<U+AB71>", "<U+AB72>", "<U+AB73>",
     "<U+AB74>", "<U+AB75>", "<U+AB76>", "<U+AB77>", "<U+AB78>", "<U+AB79>", "<U+AB7A>",
     "<U+AB7B>", "<U+AB7C>", "<U+AB7D>", "<U+AB7E>", "<U+AB7F>", "ꮀ", "ꮁ", "ꮂ", "ꮃ", "ꮄ", "ꮅ",
     "ꮆ", "ꮇ", "ꮈ", "ꮉ", "ꮊ", "ꮋ", "ꮌ", "ꮍ", "ꮎ", "ꮏ", "ꮐ", "ꮑ", "ꮒ", "ꮓ", "ꮔ", "ꮕ", "ꮖ", "ꮗ",
     "ꮘ", "ꮙ", "ꮚ", "ꮛ", "ꮜ", "ꮝ", "ꮞ", "ꮟ", "ꮠ", "ꮡ", "ꮢ", "ꮣ", "ꮤ", "ꮥ", "ꮦ", "ꮧ", "ꮨ", "ꮩ",
     "ꮪ", "ꮫ", "ꮬ", "ꮭ", "ꮮ", "ꮯ", "ꮰ", "ꮱ", "ꮲ", "ꮳ", "ꮴ", "ꮵ", "ꮶ", "ꮷ", "ꮸ", "ꮹ", "ꮺ", "ꮻ",
     "ꮼ", "ꮽ", "ꮾ", "ꮿ", "<U+FB00>", "<U+FB01>", "<U+FB02>", "<U+FB03>", "<U+FB04>", "<U+FB05>",
     "<U+FB06>", "<U+FB13>", "<U+FB14>", "<U+FB15>", "<U+FB16>", "<U+FB17>", "<U+FF21>",
     "<U+FF22>", "<U+FF23>", "<U+FF24>", "<U+FF25>", "<U+FF26>", "<U+FF27>", "<U+FF28>",
     "<U+FF29>", "<U+FF2A>", "<U+FF2B>", "<U+FF2C>", "<U+FF2D>", "<U+FF2E>", "<U+FF2F>",
     "<U+FF30>", "<U+FF31>", "<U+FF32>", "<U+FF33>", "<U+FF34>", "<U+FF35>", "<U+FF36>",
     "<U+FF37>", "<U+FF38>", "<U+FF39>", "<U+FF3A>", "<U+FF41>", "<U+FF42>", "<U+FF43>",
     "<U+FF44>", "<U+FF45>", "<U+FF46>", "<U+FF47>", "<U+FF48>", "<U+FF49>", "<U+FF4A>",
     "<U+FF4B>", "<U+FF4C>", "<U+FF4D>", "<U+FF4E>", "<U+FF4F>", "<U+FF50>", "<U+FF51>",
     "<U+FF52>", "<U+FF53>", "<U+FF54>", "<U+FF55>", "<U+FF56>", "<U+FF57>", "<U+FF58>",
     "<U+FF59>", "<U+FF5A>"}

CasedPairs ==
    {<<"<U+D801>", "<U+DC00>">>, <<"<U+D801>", "<U+DC01>">>, <<"<U+D801>", "<U+DC02>">>,
     <<"<U+D801>", "<U+DC03>">>, <<"<U+D801>", "<U+DC04>">>, <<"<U+D801>", "<U+DC05>">>,
     <<"<U+D801>", "<U+DC06>">>, <<"<U+D801>", "<U+DC07>">>, <<"<U+D801>", "<U+DC08>">>,
     <<"<U+D801>", "<U+DC09>">>, <<"<U+D801>", "<U+DC0A>">>, <<"<U+D801>", "<U+DC0B>">>,
     <<"<U+D801>", "<U+DC0C>">>, <<"<U+D801>", "<U+DC0D>">>, <<"<U+D801>", "<U+DC0E>">>,
     <<"<U+D801>", "<U+DC0F>">>, <<"<U+D801>", "<U+DC10>">>, <<"<U+D801>", "<U+DC11>">>,
     <<"<U+D801>", "<U+DC12>">>, <<"<U+D801>", "<U+DC13>">>, <<"<U+D801>", "<U+DC14>">>,
     <<"<U+D801>", "<U+DC15>">>, <<"<U+D801>", "<U+DC16>">>, <<"<U+D801>", "<U+DC17>">>,
     <<"<U+D801>", "<U+DC18>">>, <<"<U+D801>", "<U+DC19>">>, <<"<U+D801>", "<U+DC1A>">>,
     <<"<U+D801>", "<U+DC1B>">>, <<"<U+D801>", "<U+DC1C>">>, <<"<U+D801>", "<U+DC1D>">>,
     <<"<U+D801>", "<U+DC1E>">>, <<"<U+D801>", "<U+DC1F>">>, <<"<U+D801>", "<U+DC20>">>,
     <<"<U+D801>", "<U+DC21>">>, <<"<U+D801>", "<U+DC22>">>, <<"<U+D801>", "<U+DC23>">>,
     <<"<U+D801>", "<U+DC24>">>, <<"<U+D801>", "<U+DC25>">>, <<"<U+D801>", "<U+DC26>">>,
     <<"<U+D801>", "<U+DC27>">>, <<"<U+D801>", "<U+DC28>">>, <<"<U+D801>", "<U+DC29>">>,
     <<"<U+D801>", "<U+DC2A>">>, <<"<U+D801>", "<U+DC2B>">>, <<"<U+D801>", "<U+DC2C>">>,
     <<"<U+D801>", "<U+DC2D>">>, <<"<U+D801>", "<U+DC2E>">>, <<"<U+D801>", "<U+DC2F>">>,
     <<"<U+D801>", "<U+DC30>">>, <<"<U+D801>", "<U+DC31>">>, <<"<U+D801>", "<U+DC32>">>,
     <<"<U+D801>", "<U+DC33>">>, <<"<U+D801>", "<U+DC34>">>, <<"<U+D801>", "<U+DC35>">>,
     <<"<U+D801>", "<U+DC36>">>, <<"<U+D801>", "<U+DC37>">>, <<"<U+D801>", "<U+DC38>">>,
     <<"<U+D801>", "<U+DC39>">>, <<"<U+D801>", "<U+DC3A>">>, <<"<U+D801>", "<U+DC3B>">>,
     <<"<U+D801>", "<U+DC3C>">>, <<"<U+D801>", "<U+DC3D>">>, <<"<U+D801>", "<U+DC3E>">>,
     <<"<U+D801>", "<U+DC3F>">>, <<"<U+D801>", "<U+DC40>">>, <<"<U+D801>", "<U+DC41>">>,
     <<"<U+D801>", "<U+DC42>">>, <<"<U+D801>", "<U+DC43>">>, <<"<U+D801>", "<U+DC44>">>,
     <<"<U+D801>", "<U+DC45>">>, <<"<U+D801>", "<U+DC46>">>, <<"<U+D801>", "<U+DC47>">>,
     <<"<U+D801>", "<U+DC48>">>, <<"<U+D801>", "<U+DC49>">>, <<"<U+D801>", "<U+DC4A>">>,
     <<"<U+D801>", "<U+DC4B>">>, <<"<U+D801>", "<U+DC4C>">>, <<"<U+D801>", "<U+DC4D>">>,
     <<"<U+D801>", "<U+DC4E>">>, <<"<U+D801>", "<U+DC4F>">>, <<"<U+D801>", "<U+DCB0>">>,
     <<"<U+D801>", "<U+DCB1>">>, <<"<U+D801>", "<U+DCB2>">>, <<"<U+D801>", "<U+DCB3>">>,
     <<"<U+D801>", "<U+DCB4>">>, <<"<U+D801>", "<U+DCB5>">>, <<"<U+D801>", "<U+DCB6>">>,
     <<"<U+D801>", "<U+DCB7>">>, <<"<U+D801>", "<U+DCB8>">>, <<"<U+D801>", "<U+DCB9>">>,
     <<"<U+D801>", "<U+DCBA>">>, <<"<U+D801>", "<U+DCBB>">>, <<"<U+D801>", "<U+DCBC>">>,
     <<"<U+D801>", "<U+DCBD>">>, <<"<U+D801>", "<U+DCBE>">>, <<"<U+D801>", "<U+DCBF>">>,
     <<"<U+D801>", "<U+DCC0>">>, <<"<U+D801>", "<U+DCC1>">>, <<"<U+D801>", "<U+DCC2>">>,
     <<"<U+D801>", "<U+DCC3>">>, <<"<U+D801>", "<U+DCC4>">>, <<"<U+D801>", "<U+DCC5>">>,
     <<"<U+D801>", "<U+DCC6>">>, <<"<U+D801>", "<U+DCC7>">>, <<"<U+D801>", "<U+DCC8>">>,
     <<"<U+D801>", "<U+DCC9>">>, <<"<U+D801>", "<U+DCCA>">>, <<"<U+D801>", "<U+DCCB>">>,
     <<"<U+D801>", "<U+DCCC>">>, <<"<U+D801>", "<U+DCCD>">>, <<"<U+D801>", "<U+DCCE>">>,
     <<"<U+D801>", "<U+DCCF>">>, <<"<U+D801>", "<U+DCD0>">>, <<"<U+D801>", "<U+DCD1>">>,
     <<"<U+D801>", "<U+DCD2>">>, <<"<U+D801>", "<U+DCD3>">>, <<"<U+D801>", "<U+DCD8>">>,
     <<"<U+D801>", "<U+DCD9>">>, <<"<U+D801>", "<U+DCDA>">>, <<"<U+D801>", "<U+DCDB>">>,
     <<"<U+D801>", "<U+DCDC>">>, <<"<U+D801>", "<U+DCDD>">>, <<"<U+D801>", "<U+DCDE>">>,
     <<"<U+D801>", "<U+DCDF>">>, <<"<U+D801>", "<U+DCE0>">>, <<"<U+D801>", "<U+DCE1>">>,
     <<"<U+D801>", "<U+DCE2>">>, <<"<U+D801>", "<U+DCE3>">>, <<"<U+D801>", "<U+DCE4>">>,
     <<"<U+D801>", "<U+DCE5>">>, <<"<U+D801>", "<U+DCE6>">>, <<"<U+D801>", "<U+DCE7>">>,
     <<"<U+D801>", "<U+DCE8>">>, <<"<U+D801>", "<U+DCE9>">>, <<"<U+D801>", "<U+DCEA>">>,
     <<"<U+D801>", "<U+DCEB>">>, <<"<U+D801>", "<U+DCEC>">>, <<"<U+D801>", "<U+DCED>">>,
     <<"<U+D801>", "<U+DCEE>">>, <<"<U+D801>", "<U+DCEF>">>, <<"<U+D801>", "<U+DCF0>">>,
     <<"<U+D801>", "<U+DCF1>">>, <<"<U+D801>", "<U+DCF2>">>, <<"<U+D801>", "<U+DCF3>">>,
     <<"<U+D801>", "<U+DCF4>">>, <<"<U+D801>", "<U+DCF5>">>, <<"<U+D801>", "<U+DCF6>">>,
     <<"<U+D801>", "<U+DCF7>">>, <<"<U+D801>", "<U+DCF8>">>, <<"<U+D801>", "<U+DCF9>">>,
     <<"<U+D801>", "<U+DCFA>">>, <<"<U+D801>", "<U+DCFB>">>, <<"<U+D801>", "<U+DD70>">>,
     <<"<U+D801>", "<U+DD71>">>, <<"<U+D801>", "<U+DD72>">>, <<"<U+D801>", "<U+DD73>">>,
     <<"<U+D801>", "<U+DD74>">>, <<"<U+D801>", "<U+DD75>">>, <<"<U+D801>", "<U+DD76>">>,
     <<"<U+D801>", "<U+DD77>">>, <<"<U+D801>", "<U+DD78>">>, <<"<U+D801>", "<U+DD79>">>,
     <<"<U+D801>", "<U+DD7A>">>, <<"<U+D801>", "<U+DD7C>">>, <<"<U+D801>", "<U+DD7D>">>,
     <<"<U+D801>", "<U+DD7E>">>, <<"<U+D801>", "<U+DD7F>">>, <<"<U+D801>", "<U+DD80>">>,
     <<"<U+D801>", "<U+DD81>">>, <<"<U+D801>", "<U+DD82>">>, <<"<U+D801>", "<U+DD83>">>,
     <<"<U+D801>", "<U+DD84>">>, <<"<U+D801>", "<U+DD85>">>, <<"<U+D801>", "<U+DD86>">>,
     <<"<U+D801>", "<U+DD87>">>, <<"<U+D801>", "<U+DD88>">>, <<"<U+D801>", "<U+DD89>">>,
     <<"<U+D801>", "<U+DD8A>">>, <<"<U+D801>", "<U+DD8C>">>, <<"<U+D801>", "<U+DD8D>">>,
     <<"<U+D801>", "<U+DD8E>">>, <<"<U+D801>", "<U+DD8F>">>, <<"<U+D801>", "<U+DD90>">>,
     <<"<U+D801>", "<U+DD91>">>, <<"<U+D801>", "<U+DD92>">>, <<"<U+D801>", "<U+DD94>">>,
     <<"<U+D801>", "<U+DD95>">>, <<"<U+D801>", "<U+DD97>">>, <<"<U+D801>", "<U+DD98>">>,
     <<"<U+D801>", "<U+DD99>">>, <<"<U+D801>", "<U+DD9A>">>, <<"<U+D801>", "<U+DD9B>">>,
     <<"<U+D801>", "<U+DD9C>">>, <<"<U+D801>", "<U+DD9D>">>, <<"<U+D801>", "<U+DD9E>">>,
     <<"<U+D801>", "<U+DD9F>">>, <<"<U+D801>", "<U+DDA0>">>, <<"<U+D801>", "<U+DDA1>">>,
     <<"<U+D801>", "<U+DDA3>">>, <<"<U+D801>", "<U+DDA4>">>, <<"<U+D801>", "<U+DDA5>">>,
     <<"<U+D801>", "<U+DDA6>">>, <<"<U+D801>", "<U+DDA7>">>, <<"<U+D801>", "<U+DDA8>">>,
     <<"<U+D801>", "<U+DDA9>">>, <<"<U+D801>", "<U+DDAA>">>, <<"<U+D801>", "<U+DDAB>">>,
     <<"<U+D801>", "<U+DDAC>">>, <<"<U+D801>", "<U+DDAD>">>, <<"<U+D801>", "<U+DDAE>">>,
     <<"<U+D801>", "<U+DDAF>">>, <<"<U+D801>", "<U+DDB0>">>, <<"<U+D801>", "<U+DDB1>">>,
     <<"<U+D801>", "<U+DDB3>">>, <<"<U+D801>", "<U+DDB4>">>, <<"<U+D801>", "<U+DDB5>">>,
     <<"<U+D801>", "<U+DDB6>">>, <<"<U+D801>", "<U+DDB7>">>, <<"<U+D801>", "<U+DDB8>">>,
     <<"<U+D801>", "<U+DDB9>">>, <<"<U+D801>", "<U+DDBB>">>, <<"<U+D801>", "<U+DDBC>">>,
     <<"<U+D803>", "<U+DC80>">>, <<"<U+D803>", "<U+DC81>">>, <<"<U+D803>", "<U+DC82>">>,
     <<"<U+D803>", "<U+DC83>">>, <<"<U+D803>", "<U+DC84>">>, <<"<U+D803>", "<U+DC85>">>,
     <<"<U+D803>", "<U+DC86>">>, <<"<U+D803>", "<U+DC87>">>, <<"<U+D803>", "<U+DC88>">>,
     <<"<U+D803>", "<U+DC89>">>, <<"<U+D803>", "<U+DC8A>">>, <<"<U+D803>", "<U+DC8B>">>,
     <<"<U+D803>", "<U+DC8C>">>, <<"<U+D803>", "<U+DC8D>">>, <<"<U+D803>", "<U+DC8E>">>,
     <<"<U+D803>", "<U+DC8F>">>, <<"<U+D803>", "<U+DC90>">>, <<"<U+D803>", "<U+DC91>">>,
     <<"<U+D803>", "<U+DC92>">>, <<"<U+D803>", "<U+DC93>">>, <<"<U+D803>", "<U+DC94>">>,
     <<"<U+D803>", "<U+DC95>">>, <<"<U+D803>", "<U+DC96>">>, <<"<U+D803>", "<U+DC97>">>,
     <<"<U+D803>", "<U+DC98>">>, <<"<U+D803>", "<U+DC99>">>, <<"<U+D803>", "<U+DC9A>">>,
     <<"<U+D803>", "<U+DC9B>">>, <<"<U+D803>", "<U+DC9C>">>, <<"<U+D803>", "<U+DC9D>">>,
     <<"<U+D803>", "<U+DC9E>">>, <<"<U+D803>", "<U+DC9F>">>, <<"<U+D803>", "<U+DCA0>">>,
     <<"<U+D803>", "<U+DCA1>">>, <<"<U+D803>", "<U+DCA2>">>, <<"<U+D803>", "<U+DCA3>">>,
     <<"<U+D803>", "<U+DCA4>">>, <<"<U+D803>", "<U+DCA5>">>, <<"<U+D803>", "<U+DCA6>">>,
     <<"<U+D803>", "<U+DCA7>">>, <<"<U+D803>", "<U+DCA8>">>, <<"<U+D803>", "<U+DCA9>">>,
     <<"<U+D803>", "<U+DCAA>">>, <<"<U+D803>", "<U+DCAB>">>, <<"<U+D803>", "<U+DCAC>">>,
     <<"<U+D803>", "<U+DCAD>">>, <<"<U+D803>", "<U+DCAE>">>, <<"<U+D803>", "<U+DCAF>">>,
     <<"<U+D803>", "<U+DCB0>">>, <<"<U+D803>", "<U+DCB1>">>, <<"<U+D803>", "<U+DCB2>">>,
     <<"<U+D803>", "<U+DCC0>">>, <<"<U+D803>", "<U+DCC1>">>, <<"<U+D803>", "<U+DCC2>">>,
     <<"<U+D803>", "<U+DCC3>">>, <<"<U+D803>", "<U+DCC4>">>, <<"<U+D803>", "<U+DCC5>">>,
     <<"<U+D803>", "<U+DCC6>">>, <<"<U+D803>", "<U+DCC7>">>, <<"<U+D803>", "<U+DCC8>">>,
     <<"<U+D803>", "<U+DCC9>">>, <<"<U+D803>", "<U+DCCA>">>, <<"<U+D803>", "<U+DCCB>">>,
     <<"<U+D803>", "<U+DCCC>">>, <<"<U+D803>", "<U+DCCD>">>, <<"<U+D803>", "<U+DCCE>">>,
     <<"<U+D803>", "<U+DCCF>">>, <<"<U+D803>", "<U+DCD0>">>, <<"<U+D803>", "<U+DCD1>">>,
     <<"<U+D803>", "<U+DCD2>">>, <<"<U+D803>", "<U+DCD3>">>, <<"<U+D803>", "<U+DCD4>">>,
     <<"<U+D803>", "<U+DCD5>">>, <<"<U+D803>", "<U+DCD6>">>, <<"<U+D803>", "<U+DCD7>">>,
     <<"<U+D803>", "<U+DCD8>">>, <<"<U+D803>", "<U+DCD9>">>, <<"<U+D803>", "<U+DCDA>">>,
     <<"<U+D803>", "<U+DCDB>">>, <<"<U+D803>", "<U+DCDC>">>, <<"<U+D803>", "<U+DCDD>">>,
     <<"<U+D803>", "<U+DCDE>">>, <<"<U+D803>", "<U+DCDF>">>, <<"<U+D803>", "<U+DCE0>">>,
     <<"<U+D803>", "<U+DCE1>">>, <<"<U+D803>", "<U+DCE2>">>, <<"<U+D803>", "<U+DCE3>">>,
     <<"<U+D803>", "<U+DCE4>">>, <<"<U+D803>", "<U+DCE5>">>, <<"<U+D803>", "<U+DCE6>">>,
     <<"<U+D803>", "<U+DCE7>">>, <<"<U+D803>", "<U+DCE8>">>, <<"<U+D803>", "<U+DCE9>">>,
     <<"<U+D803>", "<U+DCEA>">>, <<"<U+D803>", "<U+DCEB>">>, <<"<U+D803>", "<U+DCEC>">>,
     <<"<U+D803>", "<U+DCED>">>, <<"<U+D803>", "<U+DCEE>">>, <<"<U+D803>", "<U+DCEF>">>,
     <<"<U+D803>", "<U+DCF0>">>, <<"<U+D803>", "<U+DCF1>">>, <<"<U+D803>", "<U+DCF2>">>,
     <<"<U+D803>", "<U+DD50>">>, <<"<U+D803>", "<U+DD51>">>, <<"<U+D803>", "<U+DD52>">>,
     <<"<U+D803>", "<U+DD53>">>, <<"<U+D803>", "<U+DD54>">>, <<"<U+D803>", "<U+DD55>">>,
     <<"<U+D803>", "<U+DD56>">>, <<"<U+D803>", "<U+DD57>">>, <<"<U+D803>", "<U+DD58>">>,
     <<"<U+D803>", "<U+DD59>">>, <<"<U+D803>", "<U+DD5A>">>, <<"<U+D803>", "<U+DD5B>">>,
     <<"<U+D803>", "<U+DD5C>">>, <<"<U+D803>", "<U+DD5D>">>, <<"<U+D803>", "<U+DD5E>">>,
     <<"<U+D803>", "<U+DD5F>">>, <<"<U+D803>", "<U+DD60>">>, <<"<U+D803>", "<U+DD61>">>,
     <<"<U+D803>", "<U+DD62>">>, <<"<U+D803>", "<U+DD63>">>, <<"<U+D803>", "<U+DD64>">>,
     <<"<U+D803>", "<U+DD65>">>, <<"<U+D803>", "<U+DD70>">>, <<"<U+D803>", "<U+DD71>">>,
     <<"<U+D803>", "<U+DD72>">>, <<"<U+D803>", "<U+DD73>">>, <<"<U+D803>", "<U+DD74>">>,
     <<"<U+D803>", "<U+DD75>">>, <<"<U+D803>", "<U+DD76>">>, <<"<U+D803>", "<U+DD77>">>,
     <<"<U+D803>", "<U+DD78>">>, <<"<U+D803>", "<U+DD79>">>, <<"<U+D803>", "<U+DD7A>">>,
     <<"<U+D803>", "<U+DD7B>">>, <<"<U+D803>", "<U+DD7C>">>, <<"<U+D803>", "<U+DD7D>">>,
     <<"<U+D803>", "<U+DD7E>">>, <<"<U+D803>", "<U+DD7F>">>, <<"<U+D803>", "<U+DD80>">>,
     <<"<U+D803>", "<U+DD81>">>, <<"<U+D803>", "<U+DD82>">>, <<"<U+D803>", "<U+DD83>">>,
     <<"<U+D803>", "<U+DD84>">>, <<"<U+D803>", "<U+DD85>">>, <<"<U+D806>", "<U+DCA0>">>,
     <<"<U+D806>", "<U+DCA1>">>, <<"<U+D806>", "<U+DCA2>">>, <<"<U+D806>", "<U+DCA3>">>,
     <<"<U+D806>", "<U+DCA4>">>, <<"<U+D806>", "<U+DCA5>">>, <<"<U+D806>", "<U+DCA6>">>,
     <<"<U+D806>", "<U+DCA7>">>, <<"<U+D806>", "<U+DCA8>">>, <<"<U+D806>", "<U+DCA9>">>,
     <<"<U+D806>", "<U+DCAA>">>, <<"<U+D806>", "<U+DCAB>">>, <<"<U+D806>", "<U+DCAC>">>,
     <<"<U+D806>", "<U+DCAD>">>, <<"<U+D806>", "<U+DCAE>">>, <<"<U+D806>", "<U+DCAF>">>,
     <<"<U+D806>", "<U+DCB0>">>, <<"<U+D806>", "<U+DCB1>">>, <<"<U+D806>", "<U+DCB2>">>,
     <<"<U+D806>", "<U+DCB3>">>, <<"<U+D806>", "<U+DCB4>">>, <<"<U+D806>", "<U+DCB5>">>,
     <<"<U+D806>", "<U+DCB6>">>, <<"<U+D806>", "<U+DCB7>">>, <<"<U+D806>", "<U+DCB8>">>,
     <<"<U+D806>", "<U+DCB9>">>, <<"<U+D806>", "<U+DCBA>">>, <<"<U+D806>", "<U+DCBB>">>,
     <<"<U+D806>", "<U+DCBC>">>, <<"<U+D806>", "<U+DCBD>">>, <<"<U+D806>", "<U+DCBE>">>,
     <<"<U+D806>", "<U+DCBF>">>, <<"<U+D806>", "<U+DCC0>">>, <<"<U+D806>", "<U+DCC1>">>,
     <<"<U+D806>", "<U+DCC2>">>, <<"<U+D806>", "<U+DCC3>">>, <<"<U+D806>", "<U+DCC4>">>,
     <<"<U+D806>", "<U+DCC5>">>, <<"<U+D806>", "<U+DCC6>">>, <<"<U+D806>", "<U+DCC7>">>,
     <<"<U+D806>", "<U+DCC8>">>, <<"<U+D806>", "<U+DCC9>">>, <<"<U+D806>", "<U+DCCA>">>,
     <<"<U+D806>", "<U+DCCB>">>, <<"<U+D806>", "<U+DCCC>">>, <<"<U+D806>", "<U+DCCD>">>,
     <<"<U+D806>", "<U+DCCE>">>, <<"<U+D806>", "<U+DCCF>">>, <<"<U+D806>", "<U+DCD0>">>,
     <<"<U+D806>", "<U+DCD1>">>, <<"<U+D806>", "<U+DCD2>">>, <<"<U+D806>", "<U+DCD3>">>,
     <<"<U+D806>", "<U+DCD4>">>, <<"<U+D806>", "<U+DCD5>">>, <<"<U+D806>", "<U+DCD6>">>,
     <<"<U+D806>", "<U+DCD7>">>, <<"<U+D806>", "<U+DCD8>">>, <<"<U+D806>", "<U+DCD9>">>,
     <<"<U+D806>", "<U+DCDA>">>, <<"<U+D806>", "<U+DCDB>">>, <<"<U+D806>", "<U+DCDC>">>,
     <<"<U+D806>", "<U+DCDD>">>, <<"<U+D806>", "<U+DCDE>">>, <<"<U+D806>", "<U+DCDF>">>,
     <<"<U+D81B>", "<U+DE40>">>, <<"<U+D81B>", "<U+DE41>">>, <<"<U+D81B>", "<U+DE42>">>,
     <<"<U+D81B>", "<U+DE43>">>, <<"<U+D81B>", "<U+DE44>">>, <<"<U+D81B>", "<U+DE45>">>,
     <<"<U+D81B>", "<U+DE46>">>, <<"<U+D81B>", "<U+DE47>">>, <<"<U+D81B>", "<U+DE48>">>,
     <<"<U+D81B>", "<U+DE49>">>, <<"<U+D81B>", "<U+DE4A>">>, <<"<U+D81B>", "<U+DE4B>">>,
     <<"<U+D81B>", "<U+DE4C>">>, <<"<U+D81B>", "<U+DE4D>">>, <<"<U+D81B>", "<U+DE4E>">>,
     <<"<U+D81B>", "<U+DE4F>">>, <<"<U+D81B>", "<U+DE50>">>, <<"<U+D81B>", "<U+DE51>">>,
     <<"<U+D81B>", "<U+DE52>">>, <<"<U+D81B>", "<U+DE53>">>, <<"<U+D81B>", "<U+DE54>">>,
     <<"<U+D81B>", "<U+DE55>">>, <<"<U+D81B>", "<U+DE56>">>, <<"<U+D81B>", "<U+DE57>">>,
     <<"<U+D81B>", "<U+DE58>">>, <<"<U+D81B>", "<U+DE59>">>, <<"<U+D81B>", "<U+DE5A>">>,
     <<"<U+D81B>", "<U+DE5B>">>, <<"<U+D81B>", "<U+DE5C>">>, <<"<U+D81B>", "<U+DE5D>">>,
     <<"<U+D81B>", "<U+DE5E>">>, <<"<U+D81B>", "<U+DE5F>">>, <<"<U+D81B>", "<U+DE60>">>,
     <<"<U+D81B>", "<U+DE61>">>, <<"<U+D81B>", "<U+DE62>">>, <<"<U+D81B>", "<U+DE63>">>,
     <<"<U+D81B>", "<U+DE64>">>, <<"<U+D81B>", "<U+DE65>">>, <<"<U+D81B>", "<U+DE66>">>,
     <<"<U+D81B>", "<U+DE67>">>, <<"<U+D81B>", "<U+DE68>">>, <<"<U+D81B>", "<U+DE69>">>,
     <<"<U+D81B>", "<U+DE6A>">>, <<"<U+D81B>", "<U+DE6B>">>, <<"<U+D81B>", "<U+DE6C>">>,
     <<"<U+D81B>", "<U+DE6D>">>, <<"<U+D81B>", "<U+DE6E>">>, <<"<U+D81B>", "<U+DE6F>">>,
     <<"<U+D81B>", "<U+DE70>">>, <<"<U+D81B>", "<U+DE71>">>, <<"<U+D81B>", "<U+DE72>">>,
     <<"<U+D81B>", "<U+DE73>">>, <<"<U+D81B>", "<U+DE74>">>, <<"<U+D81B>", "<U+DE75>">>,
     <<"<U+D81B>", "<U+DE76>">>, <<"<U+D81B>", "<U+DE77>">>, <<"<U+D81B>", "<U+DE78>">>,
     <<"<U+D81B>", "<U+DE79>">>, <<"<U+D81B>", "<U+DE7A>">>, <<"<U+D81B>", "<U+DE7B>">>,
     <<"<U+D81B>", "<U+DE7C>">>, <<"<U+D81B>", "<U+DE7D>">>, <<"<U+D81B>", "<U+DE7E>">>,
     <<"<U+D81B>", "<U+DE7F>">>, <<"<U+D81B>", "<U+DEA0>">>, <<"<U+D81B>", "<U+DEA1>">>,
     <<"<U+D81B>", "<U+DEA2>">>, <<"<U+D81B>", "<U+DEA3>">>, <<"<U+D81B>", "<U+DEA4>">>,
     <<"<U+D81B>", "<U+DEA5>">>, <<"<U+D81B>", "<U+DEA6>">>, <<"<U+D81B>", "<U+DEA7>">>,
     <<"<U+D81B>", "<U+DEA8>">>, <<"<U+D81B>", "<U+DEA9>">>, <<"<U+D81B>", "<U+DEAA>">>,
     <<"<U+D81B>", "<U+DEAB>">>, <<"<U+D81B>", "<U+DEAC>">>, <<"<U+D81B>", "<U+DEAD>">>,
     <<"<U+D81B>", "<U+DEAE>">>, <<"<U+D81B>", "<U+DEAF>">>, <<"<U+D81B>", "<U+DEB0>">>,
     <<"<U+D81B>", "<U+DEB1>">>, <<"<U+D81B>", "<U+DEB2>">>, <<"<U+D81B>", "<U+DEB3>">>,
     <<"<U+D81B>", "<U+DEB4>">>, <<"<U+D81B>", "<U+DEB5>">>, <<"<U+D81B>", "<U+DEB6>">>,
     <<"<U+D81B>", "<U+DEB7>">>, <<"<U+D81B>", "<U+DEB8>">>, <<"<U+D81B>", "<U+DEBB>">>,
     <<"<U+D81B>", "<U+DEBC>">>, <<"<U+D81B>", "<U+DEBD>">>, <<"<U+D81B>", "<U+DEBE>">>,
     <<"<U+D81B>", "<U+DEBF>">>, <<"<U+D81B>", "<U+DEC0>">>, <<"<U+D81B>", "<U+DEC1>">>,
     <<"<U+D81B>", "<U+DEC2>">>, <<"<U+D81B>", "<U+DEC3>">>, <<"<U+D81B>", "<U+DEC4>">>,
     <<"<U+D81B>", "<U+DEC5>">>, <<"<U+D81B>", "<U+DEC6>">>, <<"<U+D81B>", "<U+DEC7>">>,
     <<"<U+D81B>", "<U+DEC8>">>, <<"<U+D81B>", "<U+DEC9>">>, <<"<U+D81B>", "<U+DECA>">>,
     <<"<U+D81B>", "<U+DECB>">>, <<"<U+D81B>", "<U+DECC>">>, <<"<U+D81B>", "<U+DECD>">>,
     <<"<U+D81B>", "<U+DECE>">>, <<"<U+D81B>", "<U+DECF>">>, <<"<U+D81B>", "<U+DED0>">>,
     <<"<U+D81B>", "<U+DED1>">>, <<"<U+D81B>", "<U+DED2>">>, <<"<U+D81B>", "<U+DED3>">>,
     <<"<U+D835>", "<U+DC00>">>, <<"<U+D835>", "<U+DC01>">>, <<"<U+D835>", "<U+DC02>">>,
     <<"<U+D835>", "<U+DC03>">>, <<"<U+D835>", "<U+DC04>">>, <<"<U+D835>", "<U+DC05>">>,
     <<"<U+D835>", "<U+DC06>">>, <<"<U+D835>", "<U+DC07>">>, <<"<U+D835>", "<U+DC08>">>,
     <<"<U+D835>", "<U+DC09>">>, <<"<U+D835>", "<U+DC0A>">>, <<"<U+D835>", "<U+DC0B>">>,
     <<"<U+D835>", "<U+DC0C>">>, <<"<U+D835>", "<U+DC0D>">>, <<"<U+D835>", "<U+DC0E>">>,
     <<"<U+D835>", "<U+DC0F>">>, <<"<U+D835>", "<U+DC10>">>, <<"<U+D835>", "<U+DC11>">>,
     <<"<U+D835>", "<U+DC12>">>, <<"<U+D835>", "<U+DC13>">>, <<"<U+D835>", "<U+DC14>">>,
     <<"<U+D835>", "<U+DC15>">>, <<"<U+D835>", "<U+DC16>">>, <<"<U+D835>", "<U+DC17>">>,
     <<"<U+D835>", "<U+DC18>">>, <<"<U+D835>", "<U+DC19>">>, <<"<U+D835>", "<U+DC1A>">>,
     <<"<U+D835>", "<U+DC1B>">>, <<"<U+D835>", "<U+DC1C>">>, <<"<U+D835>", "<U+DC1D>">>,
     <<"<U+D835>", "<U+DC1E>">>, <<"<U+D835>", "<U+DC1F>">>, <<"<U+D835>", "<U+DC20>">>,
     <<"<U+D835>", "<U+DC21>">>, <<"<U+D835>", "<U+DC22>">>, <<"<U+D835>", "<U+DC23>">>,
     <<"<U+D835>", "<U+DC24>">>, <<"<U+D835>", "<U+DC25>">>, <<"<U+D835>", "<U+DC26>">>,
     <<"<U+D835>", "<U+DC27>">>, <<"<U+D835>", "<U+DC28>">>, <<"<U+D835>", "<U+DC29>">>,
     <<"<U+D835>", "<U+DC2A>">>, <<"<U+D835>", "<U+DC2B>">>, <<"<U+D835>", "<U+DC2C>">>,
     <<"<U+D835>", "<U+DC2D>">>, <<"<U+D835>", "<U+DC2E>">>, <<"<U+D835>", "<U+DC2F>">>,
     <<"<U+D835>", "<U+DC30>">>, <<"<U+D835>", "<U+DC31>">>, <<"<U+D835>", "<U+DC32>">>,
     <<"<U+D835>", "<U+DC33>">>, <<"<U+D835>", "<U+DC34>">>, <<"<U+D835>", "<U+DC35>">>,
     <<"<U+D835>", "<U+DC36>">>, <<"<U+D835>", "<U+DC37>">>, <<"<U+D835>", "<U+DC38>">>,
     <<"<U+D835>", "<U+DC39>">>, <<"<U+D835>", "<U+DC3A>">>, <<"<U+D835>", "<U+DC3B>">>,
     <<"<U+D835>", "<U+DC3C>">>, <<"<U+D835>", "<U+DC3D>">>, <<"<U+D835>", "<U+DC3E>">>,
     <<"<U+D835>", "<U+DC3F>">>, <<"<U+D835>", "<U+DC40>">>, <<"<U+D835>", "<U+DC41>">>,
     <<"<U+D835>", "<U+DC42>">>, <<"<U+D835>", "<U+DC43>">>, <<"<U+D835>", "<U+DC44>">>,
     <<"<U+D835>", "<U+DC45>">>, <<"<U+D835>", "<U+DC46>">>, <<"<U+D835>", "<U+DC47>">>,
     <<"<U+D835>", "<U+DC48>">>, <<"<U+D835>", "<U+DC49>">>, <<"<U+D835>", "<U+DC4A>">>,
     <<"<U+D835>", "<U+DC4B>">>, <<"<U+D835>", "<U+DC4C>">>, <<"<U+D835>", "<U+DC4D>">>,
     <<"<U+D835>", "<U+DC4E>">>, <<"<U+D835>", "<U+DC4F>">>, <<"<U+D835>", "<U+DC50>">>,
     <<"<U+D835>", "<U+DC51>">>, <<"<U+D835>", "<U+DC52>">>, <<"<U+D835>", "<U+DC53>">>,
     <<"<U+D835>", "<U+DC54>">>, <<"<U+D835>", "<U+DC56>">>, <<"<U+D835>", "<U+DC57>">>,
     <<"<U+D835>", "<U+DC58>">>, <<"<U+D835>", "<U+DC59>">>, <<"<U+D835>", "<U+DC5A>">>,
     <<"<U+D835>", "<U+DC5B>">>, <<"<U+D835>", "<U+DC5C>">>, <<"<U+D835>", "<U+DC5D>">>,
     <<"<U+D835>", "<U+DC5E>">>, <<"<U+D835>", "<U+DC5F>">>, <<"<U+D835>", "<U+DC60>">>,
     <<"<U+D835>", "<U+DC61>">>, <<"<U+D835>", "<U+DC62>">>, <<"<U+D835>", "<U+DC63>">>,
     <<"<U+D835>", "<U+DC64>">>, <<"<U+D835>", "<U+DC65>">>, <<"<U+D835>", "<U+DC66>">>,
     <<"<U+D835>", "<U+DC67>">>, <<"<U+D835>", "<U+DC68>">>, <<"<U+D835>", "<U+DC69>">>,
     <<"<U+D835>", "<U+DC6A>">>, <<"<U+D835>", "<U+DC6B>">>, <<"<U+D835>", "<U+DC6C>">>,
     <<"<U+D835>", "<U+DC6D>">>, <<"<U+D835>", "<U+DC6E>">>, <<"<U+D835>", "<U+DC6F>">>,
     <<"<U+D835>", "<U+DC70>">>, <<"<U+D835>", "<U+DC71>">>, <<"<U+D835>", "<U+DC72>">>,
     <<"<U+D835>", "<U+DC73>">>, <<"<U+D835>", "<U+DC74>">>, <<"<U+D835>", "<U+DC75>">>,
     <<"<U+D835>", "<U+DC76>">>, <<"<U+D835>", "<U+DC77>">>, <<"<U+D835>", "<U+DC78>">>,
     <<"<U+D835>", "<U+DC79>">>, <<"<U+D835>", "<U+DC7A>">>, <<"<U+D835>", "<U+DC7B>">>,
     <<"<U+D835>", "<U+DC7C>">>, <<"<U+D835>", "<U+DC7D>">>, <<"<U+D835>", "<U+DC7E>">>,
     <<"<U+D835>", "<U+DC7F>">>, <<"<U+D835>", "<U+DC80>">>, <<"<U+D835>", "<U+DC81>">>,
     <<"<U+D835>", "<U+DC82>">>, <<"<U+D835>", "<U+DC83>">>, <<"<U+D835>", "<U+DC84>">>,
     <<"<U+D835>", "<U+DC85>">>, <<"<U+D835>", "<U+DC86>">>, <<"<U+D835>", "<U+DC87>">>,
     <<"<U+D835>", "<U+DC88>">>, <<"<U+D835>", "<U+DC89>">>, <<"<U+D835>", "<U+DC8A>">>,
     <<"<U+D835>", "<U+DC8B>">>, <<"<U+D835>", "<U+DC8C>">>, <<"<U+D835>", "<U+DC8D>">>,
     <<"<U+D835>", "<U+DC8E>">>, <<"<U+D835>", "<U+DC8F>">>, <<"<U+D835>", "<U+DC90>">>,
     <<"<U+D835>", "<U+DC91>">>, <<"<U+D835>", "<U+DC92>">>, <<"<U+D835>", "<U+DC93>">>,
     <<"<U+D835>", "<U+DC94>">>, <<"<U+D835>", "<U+DC95>">>, <<"<U+D835>", "<U+DC96>">>,
     <<"<U+D835>", "<U+DC97>">>, <<"<U+D835>", "<U+DC98>">>, <<"<U+D835>", "<U+DC99>">>,
     <<"<U+D835>", "<U+DC9A>">>, <<"<U+D835>", "<U+DC9B>">>, <<"<U+D835>", "<U+DC9C>">>,
     <<"<U+D835>", "<U+DC9E>">>, <<"<U+D835>", "<U+DC9F>">>, <<"<U+D835>", "<U+DCA2>">>,
     <<"<U+D835>", "<U+DCA5>">>, <<"<U+D835>", "<U+DCA6>">>, <<"<U+D835>", "<U+DCA9>">>,
     <<"<U+D835>", "<U+DCAA>">>, <<"<U+D835>", "<U+DCAB>">>, <<"<U+D835>", "<U+DCAC>">>,
     <<"<U+D835>", "<U+DCAE>">>, <<"<U+D835>", "<U+DCAF>">>, <<"<U+D835>", "<U+DCB0>">>,
     <<"<U+D835>", "<U+DCB1>">>, <<"<U+D835>", "<U+DCB2>">>, <<"<U+D835>", "<U+DCB3>">>,
     <<"<U+D835>", "<U+DCB4>">>, <<"<U+D835>", "<U+DCB5>">>, <<"<U+D835>", "<U+DCB6>">>,
     <<"<U+D835>", "<U+DCB7>">>, <<"<U+D835>", "<U+DCB8>">>, <<"<U+D835>", "<U+DCB9>">>,
     <<"<U+D835>", "<U+DCBB>">>, <<"<U+D835>", "<U+DCBD>">>, <<"<U+D835>", "<U+DCBE>">>,
     <<"<U+D835>", "<U+DCBF>">>, <<"<U+D835>", "<U+DCC0>">>, <<"<U+D835>", "<U+DCC1>">>,
     <<"<U+D835>", "<U+DCC2>">>, <<"<U+D835>", "<U+DCC3>">>, <<"<U+D835>", "<U+DCC5>">>,
     <<"<U+D835>", "<U+DCC6>">>, <<"<U+D835>", "<U+DCC7>">>, <<"<U+D835>", "<U+DCC8>">>,
     <<"<U+D835>", "<U+DCC9>">>, <<"<U+D835>", "<U+DCCA>">>, <<"<U+D835>", "<U+DCCB>">>,
     <<"<U+D835>", "<U+DCCC>">>, <<"<U+D835>", "<U+DCCD>">>, <<"<U+D835>", "<U+DCCE>">>,
     <<"<U+D835>", "<U+DCCF>">>, <<"<U+D835>", "<U+DCD0>">>, <<"<U+D835>", "<U+DCD1>">>,
     <<"<U+D835>", "<U+DCD2>">>, <<"<U+D835>", "<U+DCD3>">>, <<"<U+D835>", "<U+DCD4>">>,
     <<"<U+D835>", "<U+DCD5>">>, <<"<U+D835>", "<U+DCD6>">>, <<"<U+D835>", "<U+DCD7>">>,
     <<"<U+D835>", "<U+DCD8>">>, <<"<U+D835>", "<U+DCD9>">>, <<"<U+D835>", "<U+DCDA>">>,
     <<"<U+D835>", "<U+DCDB>">>, <<"<U+D835>", "<U+DCDC>">>, <<"<U+D835>", "<U+DCDD>">>,
     <<"<U+D835>", "<U+DCDE>">>, <<"<U+D835>", "<U+DCDF>">>, <<"<U+D835>", "<U+DCE0>">>,
     <<"<U+D835>", "<U+DCE1>">>, <<"<U+D835>", "<U+DCE2>">>, <<"<U+D835>", "<U+DCE3>">>,
     <<"<U+D835>", "<U+DCE4>">>, <<"<U+D835>", "<U+DCE5>">>, <<"<U+D835>", "<U+DCE6>">>,
     <<"<U+D835>", "<U+DCE7>">>, <<"<U+D835>", "<U+DCE8>">>, <<"<U+D835>", "<U+DCE9>">>,
     <<"<U+D835>", "<U+DCEA>">>, <<"<U+D835>", "<U+DCEB>">>, <<"<U+D835>", "<U+DCEC>">>,
     <<"<U+D835>", "<U+DCED>">>, <<"<U+D835>", "<U+DCEE>">>, <<"<U+D835>", "<U+DCEF>">>,
     <<"<U+D835>", "<U+DCF0>">>, <<"<U+D835>", "<U+DCF1>">>, <<"<U+D835>", "<U+DCF2>">>,
     <<"<U+D835>", "<U+DCF3>">>, <<"<U+D835>", "<U+DCF4>">>, <<"<U+D835>", "<U+DCF5>">>,
     <<"<U+D835>", "<U+DCF6>">>, <<"<U+D835>", "<U+DCF7>">>, <<"<U+D835>", "<U+DCF8>">>,
     <<"<U+D835>", "<U+DCF9>">>, <<"<U+D835>", "<U+DCFA>">>, <<"<U+D835>", "<U+DCFB>">>,
     <<"<U+D835>", "<U+DCFC>">>, <<"<U+D835>", "<U+DCFD>">>, <<"<U+D835>", "<U+DCFE>">>,
     <<"<U+D835>", "<U+DCFF>">>, <<"<U+D835>", "<U+DD00>">>, <<"<U+D835>", "<U+DD01>">>,
     <<"<U+D835>", "<U+DD02>">>, <<"<U+D835>", "<U+DD03>">>, <<"<U+D835>", "<U+DD04>">>,
     <<"<U+D835>", "<U+DD05>">>, <<"<U+D835>", "<U+DD07>">>, <<"<U+D835>", "<U+DD08>">>,
     <<"<U+D835>", "<U+DD09>">>, <<"<U+D835>", "<U+DD0A>">>, <<"<U+D835>", "<U+DD0D>">>,
     <<"<U+D835>", "<U+DD0E>">>, <<"<U+D835>", "<U+DD0F>">>, <<"<U+D835>", "<U+DD10>">>,
     <<"<U+D835>", "<U+DD11>">>, <<"<U+D835>", "<U+DD12>">>, <<"<U+D835>", "<U+DD13>">>,
     <<"<U+D835>", "<U+DD14>">>, <<"<U+D835>", "<U+DD16>">>, <<"<U+D835>", "<U+DD17>">>,
     <<"<U+D835>", "<U+DD18>">>, <<"<U+D835>", "<U+DD19>">>, <<"<U+D835>", "<U+DD1A>">>,
     <<"<U+D835>", "<U+DD1B>">>, <<"<U+D835>", "<U+DD1C>">>, <<"<U+D835>", "<U+DD1E>">>,
     <<"<U+D835>", "<U+DD1F>">>, <<"<U+D835>", "<U+DD20>">>, <<"<U+D835>", "<U+DD21>">>,
     <<"<U+D835>", "<U+DD22>">>, <<"<U+D835>", "<U+DD23>">>, <<"<U+D835>", "<U+DD24>">>,
     <<"<U+D835>", "<U+DD25>">>, <<"<U+D835>", "<U+DD26>">>, <<"<U+D835>", "<U+DD27>">>,
     <<"<U+D835>", "<U+DD28>">>, <<"<U+D835>", "<U+DD29>">>, <<"<U+D835>", "<U+DD2A>">>,
     <<"<U+D835>", "<U+DD2B>">>, <<"<U+D835>", "<U+DD2C>">>, <<"<U+D835>", "<U+DD2D>">>,
     <<"<U+D835>", "<U+DD2E>">>, <<"<U+D835>", "<U+DD2F>">>, <<"<U+D835>", "<U+DD30>">>,
     <<"<U+D835>", "<U+DD31>">>, <<"<U+D835>", "<U+DD32>">>, <<"<U+D835>", "<U+DD33>">>,
     <<"<U+D835>", "<U+DD34>">>, <<"<U+D835>", "<U+DD35>">>, <<"<U+D835>", "<U+DD36>">>,
     <<"<U+D835>", "<U+DD37>">>, <<"<U+D835>", "<U+DD38>">>, <<"<U+D835>", "<U+DD39>">>,
     <<"<U+D835>", "<U+DD3B>">>, <<"<U+D835>", "<U+DD3C>">>, <<"<U+D835>", "<U+DD3D>">>,
     <<"<U+D835>", "<U+DD3E>">>, <<"<U+D835>", "<U+DD40>">>, <<"<U+D835>", "<U+DD41>">>,
     <<"<U+D835>", "<U+DD42>">>, <<"<U+D835>", "<U+DD43>">>, <<"<U+D835>", "<U+DD44>">>,
     <<"<U+D835>", "<U+DD46>">>, <<"<U+D835>", "<U+DD4A>">>, <<"<U+D835>", "<U+DD4B>">>,
     <<"<U+D835>", "<U+DD4C>">>, <<"<U+D835>", "<U+DD4D>">>, <<"<U+D835>", "<U+DD4E>">>,
     <<"<U+D835>", "<U+DD4F>">>, <<"<U+D835>", "<U+DD50>">>, <<"<U+D835>", "<U+DD52>">>,
     <<"<U+D835>", "<U+DD53>">>, <<"<U+D835>", "<U+DD54>">>, <<"<U+D835>", "<U+DD55>">>,
     <<"<U+D835>", "<U+DD56>">>, <<"<U+D835>", "<U+DD57>">>, <<"<U+D835>", "<U+DD58>">>,
     <<"<U+D835>", "<U+DD59>">>, <<"<U+D835>", "<U+DD5A>">>, <<"<U+D835>", "<U+DD5B>">>,
     <<"<U+D835>", "<U+DD5C>">>, <<"<U+D835>", "<U+DD5D>">>, <<"<U+D835>", "<U+DD5E>">>,
     <<"<U+D835>", "<U+DD5F>">>, <<"<U+D835>", "<U+DD60>">>, <<"<U+D835>", "<U+DD61>">>,
     <<"<U+D835>", "<U+DD62>">>, <<"<U+D835>", "<U+DD63>">>, <<"<U+D835>", "<U+DD64>">>,
     <<"<U+D835>", "<U+DD65>">>, <<"<U+D835>", "<U+DD66>">>, <<"<U+D835>", "<U+DD67>">>,
     <<"<U+D835>", "<U+DD68>">>, <<"<U+D835>", "<U+DD69>">>, <<"<U+D835>", "<U+DD6A>">>,
     <<"<U+D835>", "<U+DD6B>">>, <<"<U+D835>", "<U+DD6C>">>, <<"<U+D835>", "<U+DD6D>">>,
     <<"<U+D835>", "<U+DD6E>">>, <<"<U+D835>", "<U+DD6F>">>, <<"<U+D835>", "<U+DD70>">>,
     <<"<U+D835>", "<U+DD71>">>, <<"<U+D835>", "<U+DD72>">>, <<"<U+D835>", "<U+DD73>">>,
     <<"<U+D835>", "<U+DD74>">>, <<"<U+D835>", "<U+DD75>">>, <<"<U+D835>", "<U+DD76>">>,
     <<"<U+D835>", "<U+DD77>">>, <<"<U+D835>", "<U+DD78>">>, <<"<U+D835>", "<U+DD79>">>,
     <<"<U+D835>", "<U+DD7A>">>, <<"<U+D835>", "<U+DD7B>">>, <<"<U+D835>", "<U+DD7C>">>,
     <<"<U+D835>", "<U+DD7D>">>, <<"<U+D835>", "<U+DD7E>">>, <<"<U+D835>", "<U+DD7F>">>,
     <<"<U+D835>", "<U+DD80>">>, <<"<U+D835>", "<U+DD81>">>, <<"<U+D835>", "<U+DD82>">>,
     <<"<U+D835>", "<U+DD83>">>, <<"<U+D835>", "<U+DD84>">>, <<"<U+D835>", "<U+DD85>">>,
     <<"<U+D835>", "<U+DD86>">>, <<"<U+D835>", "<U+DD87>">>, <<"<U+D835>", "<U+DD88>">>,
     <<"<U+D835>", "<U+DD89>">>, <<"<U+D835>", "<U+DD8A>">>, <<"<U+D835>", "<U+DD8B>">>,
     <<"<U+D835>", "<U+DD8C>">>, <<"<U+D835>", "<U+DD8D>">>, <<"<U+D835>", "<U+DD8E>">>,
     <<"<U+D835>", "<U+DD8F>">>, <<"<U+D835>", "<U+DD90>">>, <<"<U+D835>", "<U+DD91>">>,
     <<"<U+D835>", "<U+DD92>">>, <<"<U+D835>", "<U+DD93>">>, <<"<U+D835>", "<U+DD94>">>,
     <<"<U+D835>", "<U+DD95>">>, <<"<U+D835>", "<U+DD96>">>, <<"<U+D835>", "<U+DD97>">>,
     <<"<U+D835>", "<U+DD98>">>, <<"<U+D835>", "<U+DD99>">>, <<"<U+D835>", "<U+DD9A>">>,
     <<"<U+D835>", "<U+DD9B>">>, <<"<U+D835>", "<U+DD9C>">>, <<"<U+D835>", "<U+DD9D>">>,
     <<"<U+D835>", "<U+DD9E>">>, <<"<U+D835>", "<U+DD9F>">>, <<"<U+D835>", "<U+DDA0>">>,
     <<"<U+D835>", "<U+DDA1>">>, <<"<U+D835>", "<U+DDA2>">>, <<"<U+D835>", "<U+DDA3>">>,
     <<"<U+D835>", "<U+DDA4>">>, <<"<U+D835>", "<U+DDA5>">>, <<"<U+D835>", "<U+DDA6>">>,
     <<"<U+D835>", "<U+DDA7>">>, <<"<U+D835>", "<U+DDA8>">>, <<"<U+D835>", "<U+DDA9>">>,
     <<"<U+D835>", "<U+DDAA>">>, <<"<U+D835>", "<U+DDAB>">>, <<"<U+D835>", "<U+DDAC>">>,
     <<"<U+D835>", "<U+DDAD>">>, <<"<U+D835>", "<U+DDAE>">>, <<"<U+D835>", "<U+DDAF>">>,
     <<"<U+D835>", "<U+DDB0>">>, <<"<U+D835>", "<U+DDB1>">>, <<"<U+D835>", "<U+DDB2>">>,
     <<"<U+D835>", "<U+DDB3>">>, <<"<U+D835>", "<U+DDB4>">>, <<"<U+D835>", "<U+DDB5>">>,
     <<"<U+D835>", "<U+DDB6>">>, <<"<U+D835>", "<U+DDB7>">>, <<"<U+D835>", "<U+DDB8>">>,
     <<"<U+D835>", "<U+DDB9>">>, <<"<U+D835>", "<U+DDBA>">>, <<"<U+D835>", "<U+DDBB>">>,
     <<"<U+D835>", "<U+DDBC>">>, <<"<U+D835>", "<U+DDBD>">>, <<"<U+D835>", "<U+DDBE>">>,
     <<"<U+D835>", "<U+DDBF>">>, <<"<U+D835>", "<U+DDC0>">>, <<"<U+D835>", "<U+DDC1>">>,
     <<"<U+D835>", "<U+DDC2>">>, <<"<U+D835>", "<U+DDC3>">>, <<"<U+D835>", "<U+DDC4>">>,
     <<"<U+D835>", "<U+DDC5>">>, <<"<U+D835>", "<U+DDC6>">>, <<"<U+D835>", "<U+DDC7>">>,
     <<"<U+D835>", "<U+DDC8>">>, <<"<U+D835>", "<U+DDC9>">>, <<"<U+D835>", "<U+DDCA>">>,
     <<"<U+D835>", "<U+DDCB>">>, <<"<U+D835>", "<U+DDCC>">>, <<"<U+D835>", "<U+DDCD>">>,
     <<"<U+D835>", "<U+DDCE>">>, <<"<U+D835>", "<U+DDCF>">>, <<"<U+D835>", "<U+DDD0>">>,
     <<"<U+D835>", "<U+DDD1>">>, <<"<U+D835>", "<U+DDD2>">>, <<"<U+D835>", "<U+DDD3>">>,
     <<"<U+D835>", "<U+DDD4>">>, <<"<U+D835>", "<U+DDD5>">>, <<"<U+D835>", "<U+DDD6>">>,
     <<"<U+D835>", "<U+DDD7>">>, <<"<U+D835>", "<U+DDD8>">>, <<"<U+D835>", "<U+DDD9>">>,
     <<"<U+D835>", "<U+DDDA>">>, <<"<U+D835>", "<U+DDDB>">>, <<"<U+D835>", "<U+DDDC>">>,
     <<"<U+D835>", "<U+DDDD>">>, <<"<U+D835>", "<U+DDDE>">>, <<"<U+D835>", "<U+DDDF>">>,
     <<"<U+D835>", "<U+DDE0>">>, <<"<U+D835>", "<U+DDE1>">>, <<"<U+D835>", "<U+DDE2>">>,
     <<"<U+D835>", "<U+DDE3>">>, <<"<U+D835>", "<U+DDE4>">>, <<"<U+D835>", "<U+DDE5>">>,
     <<"<U+D835>", "<U+DDE6>">>, <<"<U+D835>", "<U+DDE7>">>, <<"<U+D835>", "<U+DDE8>">>,
     <<"<U+D835>", "<U+DDE9>">>, <<"<U+D835>", "<U+DDEA>">>, <<"<U+D835>", "<U+DDEB>">>,
     <<"<U+D835>", "<U+DDEC>">>, <<"<U+D835>", "<U+DDED>">>, <<"<U+D835>", "<U+DDEE>">>,
     <<"<U+D835>", "<U+DDEF>">>, <<"<U+D835>", "<U+DDF0>">>, <<"<U+D835>", "<U+DDF1>">>,
     <<"<U+D835>", "<U+DDF2>">>, <<"<U+D835>", "<U+DDF3>">>, <<"<U+D835>", "<U+DDF4>">>,
     <<"<U+D835>", "<U+DDF5>">>, <<"<U+D835>", "<U+DDF6>">>, <<"<U+D835>", "<U+DDF7>">>,
     <<"<U+D835>", "<U+DDF8>">>, <<"<U+D835>", "<U+DDF9>">>, <<"<U+D835>", "<U+DDFA>">>,
     <<"<U+D835>", "<U+DDFB>">>, <<"<U+D835>", "<U+DDFC>">>, <<"<U+D835>", "<U+DDFD>">>,
     <<"<U+D835>", "<U+DDFE>">>, <<"<U+D835>", "<U+DDFF>">>, <<"<U+D835>", "<U+DE00>">>,
     <<"<U+D835>", "<U+DE01>">>, <<"<U+D835>", "<U+DE02>">>, <<"<U+D835>", "<U+DE03>">>,
     <<"<U+D835>", "<U+DE04>">>, <<"<U+D835>", "<U+DE05>">>, <<"<U+D835>", "<U+DE06>">>,
     <<"<U+D835>", "<U+DE07>">>, <<"<U+D835>", "<U+DE08>">>, <<"<U+D835>", "<U+DE09>">>,
     <<"<U+D835>", "<U+DE0A>">>, <<"<U+D835>", "<U+DE0B>">>, <<"<U+D835>", "<U+DE0C>">>,
     <<"<U+D835>", "<U+DE0D>">>, <<"<U+D835>", "<U+DE0E>">>, <<"<U+D835>", "<U+DE0F>">>,
     <<"<U+D835>", "<U+DE10>">>, <<"<U+D835>", "<U+DE11>">>, <<"<U+D835>", "<U+DE12>">>,
     <<"<U+D835>", "<U+DE13>">>, <<"<U+D835>", "<U+DE14>">>, <<"<U+D835>", "<U+DE15>">>,
     <<"<U+D835>", "<U+DE16>">>, <<"<U+D835>", "<U+DE17>">>, <<"<U+D835>", "<U+DE18>">>,
     <<"<U+D835>", "<U+DE19>">>, <<"<U+D835>", "<U+DE1A>">>, <<"<U+D835>", "<U+DE1B>">>,
     <<"<U+D835>", "<U+DE1C>">>, <<"<U+D835>", "<U+DE1D>">>, <<"<U+D835>", "<U+DE1E>">>,
     <<"<U+D835>", "<U+DE1F>">>, <<"<U+D835>", "<U+DE20>">>, <<"<U+D835>", "<U+DE21>">>,
     <<"<U+D835>", "<U+DE22>">>, <<"<U+D835>", "<U+DE23>">>, <<"<U+D835>", "<U+DE24>">>,
     <<"<U+D835>", "<U+DE25>">>, <<"<U+D835>", "<U+DE26>">>, <<"<U+D835>", "<U+DE27>">>,
     <<"<U+D835>", "<U+DE28>">>, <<"<U+D835>", "<U+DE29>">>, <<"<U+D835>", "<U+DE2A>">>,
     <<"<U+D835>", "<U+DE2B>">>, <<"<U+D835>", "<U+DE2C>">>, <<"<U+D835>", "<U+DE2D>">>,
     <<"<U+D835>", "<U+DE2E>">>, <<"<U+D835>", "<U+DE2F>">>, <<"<U+D835>", "<U+DE30>">>,
     <<"<U+D835>", "<U+DE31>">>, <<"<U+D835>", "<U+DE32>">>, <<"<U+D835>", "<U+DE33>">>,
     <<"<U+D835>", "<U+DE34>">>, <<"<U+D835>", "<U+DE35>">>, <<"<U+D835>", "<U+DE36>">>,
     <<"<U+D835>", "<U+DE37>">>, <<"<U+D835>", "<U+DE38>">>, <<"<U+D835>", "<U+DE39>">>,
     <<"<U+D835>", "<U+DE3A>">>, <<"<U+D835>", "<U+DE3B>">>, <<"<U+D835>", "<U+DE3C>">>,
     <<"<U+D835>", "<U+DE3D>">>, <<"<U+D835>", "<U+DE3E>">>, <<"<U+D835>", "<U+DE3F>">>,
     <<"<U+D835>", "<U+DE40>">>, <<"<U+D835>", "<U+DE41>">>, <<"<U+D835>", "<U+DE42>">>,
     <<"<U+D835>", "<U+DE43>">>, <<"<U+D835>", "<U+DE44>">>, <<"<U+D835>", "<U+DE45>">>,
     <<"<U+D835>", "<U+DE46>">>, <<"<U+D835>", "<U+DE47>">>, <<"<U+D835>", "<U+DE48>">>,
     <<"<U+D835>", "<U+DE49>">>, <<"<U+D835>", "<U+DE4A>">>, <<"<U+D835>", "<U+DE4B>">>,
     <<"<U+D835>", "<U+DE4C>">>, <<"<U+D835>", "<U+DE4D>">>, <<"<U+D835>", "<U+DE4E>">>,
     <<"<U+D835>", "<U+DE4F>">>, <<"<U+D835>", "<U+DE50>">>, <<"<U+D835>", "<U+DE51>">>,
     <<"<U+D835>", "<U+DE52>">>, <<"<U+D835>", "<U+DE53>">>, <<"<U+D835>", "<U+DE54>">>,
     <<"<U+D835>", "<U+DE55>">>, <<"<U+D835>", "<U+DE56>">>, <<"<U+D835>", "<U+DE57>">>,
     <<"<U+D835>", "<U+DE58>">>, <<"<U+D835>", "<U+DE59>">>, <<"<U+D835>", "<U+DE5A>">>,
     <<"<U+D835>", "<U+DE5B>">>, <<"<U+D835>", "<U+DE5C>">>, <<"<U+D835>", "<U+DE5D>">>,
     <<"<U+D835>", "<U+DE5E>">>, <<"<U+D835>", "<U+DE5F>">>, <<"<U+D835>", "<U+DE60>">>,
     <<"<U+D835>", "<U+DE61>">>, <<"<U+D835>", "<U+DE62>">>, <<"<U+D835>", "<U+DE63>">>,
     <<"<U+D835>", "<U+DE64>">>, <<"<U+D835>", "<U+DE65>">>, <<"<U+D835>", "<U+DE66>">>,
     <<"<U+D835>", "<U+DE67>">>, <<"<U+D835>", "<U+DE68>">>, <<"<U+D835>", "<U+DE69>">>,
     <<"<U+D835>", "<U+DE6A>">>, <<"<U+D835>", "<U+DE6B>">>, <<"<U+D835>", "<U+DE6C>">>,
     <<"<U+D835>", "<U+DE6D>">>, <<"<U+D835>", "<U+DE6E>">>, <<"<U+D835>", "<U+DE6F>">>,
     <<"<U+D835>", "<U+DE70>">>, <<"<U+D835>", "<U+DE71>">>, <<"<U+D835>", "<U+DE72>">>,
     <<"<U+D835>", "<U+DE73>">>, <<"<U+D835>", "<U+DE74>">>, <<"<U+D835>", "<U+DE75>">>,
     <<"<U+D835>", "<U+DE76>">>, <<"<U+D835>", "<U+DE77>">>, <<"<U+D835>", "<U+DE78>">>,
     <<"<U+D835>", "<U+DE79>">>, <<"<U+D835>", "<U+DE7A>">>, <<"<U+D835>", "<U+DE7B>">>,
     <<"<U+D835>", "<U+DE7C>">>, <<"<U+D835>", "<U+DE7D>">>, <<"<U+D835>", "<U+DE7E>">>,
     <<"<U+D835>", "<U+DE7F>">>, <<"<U+D835>", "<U+DE80>">>, <<"<U+D835>", "<U+DE81>">>,
     <<"<U+D835>", "<U+DE82>">>, <<"<U+D835>", "<U+DE83>">>, <<"<U+D835>", "<U+DE84>">>,
     <<"<U+D835>", "<U+DE85>">>, <<"<U+D835>", "<U+DE86>">>, <<"<U+D835>", "<U+DE87>">>,
     <<"<U+D835>", "<U+DE88>">>, <<"<U+D835>", "<U+DE89>">>, <<"<U+D835>", "<U+DE8A>">>,
     <<"<U+D835>", "<U+DE8B>">>, <<"<U+D835>", "<U+DE8C>">>, <<"<U+D835>", "<U+DE8D>">>,
     <<"<U+D835>", "<U+DE8E>">>, <<"<U+D835>", "<U+DE8F>">>, <<"<U+D835>", "<U+DE90>">>,
     <<"<U+D835>", "<U+DE91>">>, <<"<U+D835>", "<U+DE92>">>, <<"<U+D835>", "<U+DE93>">>,
     <<"<U+D835>", "<U+DE94>">>, <<"<U+D835>", "<U+DE95>">>, <<"<U+D835>", "<U+DE96>">>,
     <<"<U+D835>", "<U+DE97>">>, <<"<U+D835>", "<U+DE98>">>, <<"<U+D835>", "<U+DE99>">>,
     <<"<U+D835>", "<U+DE9A>">>, <<"<U+D835>", "<U+DE9B>">>, <<"<U+D835>", "<U+DE9C>">>,
     <<"<U+D835>", "<U+DE9D>">>, <<"<U+D835>", "<U+DE9E>">>, <<"<U+D835>", "<U+DE9F>">>,
     <<"<U+D835>", "<U+DEA0>">>, <<"<U+D835>", "<U+DEA1>">>, <<"<U+D835>", "<U+DEA2>">>,
     <<"<U+D835>", "<U+DEA3>">>, <<"<U+D835>", "<U+DEA4>">>, <<"<U+D835>", "<U+DEA5>">>,
     <<"<U+D835>", "<U+DEA8>">>, <<"<U+D835>", "<U+DEA9>">>, <<"<U+D835>", "<U+DEAA>">>,
     <<"<U+D835>", "<U+DEAB>">>, <<"<U+D835>", "<U+DEAC>">>, <<"<U+D835>", "<U+DEAD>">>,
     <<"<U+D835>", "<U+DEAE>">>, <<"<U+D835>", "<U+DEAF>">>, <<"<U+D835>", "<U+DEB0>">>,
     <<"<U+D835>", "<U+DEB1>">>, <<"<U+D835>", "<U+DEB2>">>, <<"<U+D835>", "<U+DEB3>">>,
     <<"<U+D835>", "<U+DEB4>">>, <<"<U+D835>", "<U+DEB5>">>, <<"<U+D835>", "<U+DEB6>">>,
     <<"<U+D835>", "<U+DEB7>">>, <<"<U+D835>", "<U+DEB8>">>, <<"<U+D835>", "<U+DEB9>">>,
     <<"<U+D835>", "<U+DEBA>">>, <<"<U+D835>", "<U+DEBB>">>, <<"<U+D835>", "<U+DEBC>">>,
     <<"<U+D835>", "<U+DEBD>">>, <<"<U+D835>", "<U+DEBE>">>, <<"<U+D835>", "<U+DEBF>">>,
     <<"<U+D835>", "<U+DEC0>">>, <<"<U+D835>", "<U+DEC2>">>, <<"<U+D835>", "<U+DEC3>">>,
     <<"<U+D835>", "<U+DEC4>">>, <<"<U+D835>", "<U+DEC5>">>, <<"<U+D835>", "<U+DEC6>">>,
     <<"<U+D835>", "<U+DEC7>">>, <<"<U+D835>", "<U+DEC8>">>, <<"<U+D835>", "<U+DEC9>">>,
     <<"<U+D835>", "<U+DECA>">>, <<"<U+D835>", "<U+DECB>">>, <<"<U+D835>", "<U+DECC>">>,
     <<"<U+D835>", "<U+DECD>">>, <<"<U+D835>", "<U+DECE>">>, <<"<U+D835>", "<U+DECF>">>,
     <<"<U+D835>", "<U+DED0>">>, <<"<U+D835>", "<U+DED1>">>, <<"<U+D835>", "<U+DED2>">>,
     <<"<U+D835>", "<U+DED3>">>, <<"<U+D835>", "<U+DED4>">>, <<"<U+D835>", "<U+DED5>">>,
     <<"<U+D835>", "<U+DED6>">>, <<"<U+D835>", "<U+DED7>">>, <<"<U+D835>", "<U+DED8>">>,
     <<"<U+D835>", "<U+DED9>">>, <<"<U+D835>", "<U+DEDA>">>, <<"<U+D835>", "<U+DEDC>">>,
     <<"<U+D835>", "<U+DEDD>">>, <<"<U+D835>", "<U+DEDE>">>, <<"<U+D835>", "<U+DEDF>">>,
     <<"<U+D835>", "<U+DEE0>">>, <<"<U+D835>", "<U+DEE1>">>, <<"<U+D835>", "<U+DEE2>">>,
     <<"<U+D835>", "<U+DEE3>">>, <<"<U+D835>", "<U+DEE4>">>, <<"<U+D835>", "<U+DEE5>">>,
     <<"<U+D835>", "<U+DEE6>">>, <<"<U+D835>", "<U+DEE7>">>, <<"<U+D835>", "<U+DEE8>">>,
     <<"<U+D835>", "<U+DEE9>">>, <<"<U+D835>", "<U+DEEA>">>, <<"<U+D835>", "<U+DEEB>">>,
     <<"<U+D835>", "<U+DEEC>">>, <<"<U+D835>", "<U+DEED>">>, <<"<U+D835>", "<U+DEEE>">>,
     <<"<U+D835>", "<U+DEEF>">>, <<"<U+D835>", "<U+DEF0>">>, <<"<U+D835>", "<U+DEF1>">>,
     <<"<U+D835>", "<U+DEF2>">>, <<"<U+D835>", "<U+DEF3>">>, <<"<U+D835>", "<U+DEF4>">>,
     <<"<U+D835>", "<U+DEF5>">>, <<"<U+D835>", "<U+DEF6>">>, <<"<U+D835>", "<U+DEF7>">>,
     <<"<U+D835>", "<U+DEF8>">>, <<"<U+D835>", "<U+DEF9>">>, <<"<U+D835>", "<U+DEFA>">>,
     <<"<U+D835>", "<U+DEFC>">>, <<"<U+D835>", "<U+DEFD>">>, <<"<U+D835>", "<U+DEFE>">>,
     <<"<U+D835>", "<U+DEFF>">>, <<"<U+D835>", "<U+DF00>">>, <<"<U+D835>", "<U+DF01>">>,
     <<"<U+D835>", "<U+DF02>">>, <<"<U+D835>", "<U+DF03>">>, <<"<U+D835>", "<U+DF04>">>,
     <<"<U+D835>", "<U+DF05>">>, <<"<U+D835>", "<U+DF06>">>, <<"<U+D835>", "<U+DF07>">>,
     <<"<U+D835>", "<U+DF08>">>, <<"<U+D835>", "<U+DF09>">>, <<"<U+D835>", "<U+DF0A>">>,
     <<"<U+D835>", "<U+DF0B>">>, <<"<U+D835>", "<U+DF0C>">>, <<"<U+D835>", "<U+DF0D>">>,
     <<"<U+D835>", "<U+DF0E>">>, <<"<U+D835>", "<U+DF0F>">>, <<"<U+D835>", "<U+DF10>">>,
     <<"<U+D835>", "<U+DF11>">>, <<"<U+D835>", "<U+DF12>">>, <<"<U+D835>", "<U+DF13>">>,
     <<"<U+D835>", "<U+DF14>">>, <<"<U+D835>", "<U+DF16>">>, <<"<U+D835>", "<U+DF17>">>,
     <<"<U+D835>", "<U+DF18>">>, <<"<U+D835>", "<U+DF19>">>, <<"<U+D835>", "<U+DF1A>">>,
     <<"<U+D835>", "<U+DF1B>">>, <<"<U+D835>", "<U+DF1C>">>, <<"<U+D835>", "<U+DF1D>">>,
     <<"<U+D835>", "<U+DF1E>">>, <<"<U+D835>", "<U+DF1F>">>, <<"<U+D835>", "<U+DF20>">>,
     <<"<U+D835>", "<U+DF21>">>, <<"<U+D835>", "<U+DF22>">>, <<"<U+D835>", "<U+DF23>">>,
     <<"<U+D835>", "<U+DF24>">>, <<"<U+D835>", "<U+DF25>">>, <<"<U+D835>", "<U+DF26>">>,
     <<"<U+D835>", "<U+DF27>">>, <<"<U+D835>", "<U+DF28>">>, <<"<U+D835>", "<U+DF29>">>,
     <<"<U+D835>", "<U+DF2A>">>, <<"<U+D835>", "<U+DF2B>">>, <<"<U+D835>", "<U+DF2C>">>,
     <<"<U+D835>", "<U+DF2D>">>, <<"<U+D835>", "<U+DF2E>">>, <<"<U+D835>", "<U+DF2F>">>,
     <<"<U+D835>", "<U+DF30>">>, <<"<U+D835>", "<U+DF31>">>, <<"<U+D835>", "<U+DF32>">>,
     <<"<U+D835>", "<U+DF33>">>, <<"<U+D835>", "<U+DF34>">>, <<"<U+D835>", "<U+DF36>">>,
     <<"<U+D835>", "<U+DF37>">>, <<"<U+D835>", "<U+DF38>">>, <<"<U+D835>", "<U+DF39>">>,
     <<"<U+D835>", "<U+DF3A>">>, <<"<U+D835>", "<U+DF3B>">>, <<"<U+D835>", "<U+DF3C>">>,
     <<"<U+D835>", "<U+DF3D>">>, <<"<U+D835>", "<U+DF3E>">>, <<"<U+D835>", "<U+DF3F>">>,
     <<"<U+D835>", "<U+DF40>">>, <<"<U+D835>", "<U+DF41>">>, <<"<U+D835>", "<U+DF42>">>,
     <<"<U+D835>", "<U+DF43>">>, <<"<U+D835>", "<U+DF44>">>, <<"<U+D835>", "<U+DF45>">>,
     <<"<U+D835>", "<U+DF46>">>, <<"<U+D835>", "<U+DF47>">>, <<"<U+D835>", "<U+DF48>">>,
     <<"<U+D835>", "<U+DF49>">>, <<"<U+D835>", "<U+DF4A>">>, <<"<U+D835>", "<U+DF4B>">>,
     <<"<U+D835>", "<U+DF4C>">>, <<"<U+D835>", "<U+DF4D>">>, <<"<U+D835>", "<U+DF4E>">>,
     <<"<U+D835>", "<U+DF50>">>, <<"<U+D835>", "<U+DF51>">>, <<"<U+D835>", "<U+DF52>">>,
     <<"<U+D835>", "<U+DF53>">>, <<"<U+D835>", "<U+DF54>">>, <<"<U+D835>", "<U+DF55>">>,
     <<"<U+D835>", "<U+DF56>">>, <<"<U+D835>", "<U+DF57>">>, <<"<U+D835>", "<U+DF58>">>,
     <<"<U+D835>", "<U+DF59>">>, <<"<U+D835>", "<U+DF5A>">>, <<"<U+D835>", "<U+DF5B>">>,
     <<"<U+D835>", "<U+DF5C>">>, <<"<U+D835>", "<U+DF5D>">>, <<"<U+D835>", "<U+DF5E>">>,
     <<"<U+D835>", "<U+DF5F>">>, <<"<U+D835>", "<U+DF60>">>, <<"<U+D835>", "<U+DF61>">>,
     <<"<U+D835>", "<U+DF62>">>, <<"<U+D835>", "<U+DF63>">>, <<"<U+D835>", "<U+DF64>">>,
     <<"<U+D835>", "<U+DF65>">>, <<"<U+D835>", "<U+DF66>">>, <<"<U+D835>", "<U+DF67>">>,
     <<"<U+D835>", "<U+DF68>">>, <<"<U+D835>", "<U+DF69>">>, <<"<U+D835>", "<U+DF6A>">>,
     <<"<U+D835>", "<U+DF6B>">>, <<"<U+D835>", "<U+DF6C>">>, <<"<U+D835>", "<U+DF6D>">>,
     <<"<U+D835>", "<U+DF6E>">>, <<"<U+D835>", "<U+DF70>">>, <<"<U+D835>", "<U+DF71>">>,
     <<"<U+D835>", "<U+DF72>">>, <<"<U+D835>", "<U+DF73>">>, <<"<U+D835>", "<U+DF74>">>,
     <<"<U+D835>", "<U+DF75>">>, <<"<U+D835>", "<U+DF76>">>, <<"<U+D835>", "<U+DF77>">>,
     <<"<U+D835>", "<U+DF78>">>, <<"<U+D835>", "<U+DF79>">>, <<"<U+D835>", "<U+DF7A>">>,
     <<"<U+D835>", "<U+DF7B>">>, <<"<U+D835>", "<U+DF7C>">>, <<"<U+D835>", "<U+DF7D>">>,
     <<"<U+D835>", "<U+DF7E>">>, <<"<U+D835>", "<U+DF7F>">>, <<"<U+D835>", "<U+DF80>">>,
     <<"<U+D835>", "<U+DF81>">>, <<"<U+D835>", "<U+DF82>">>, <<"<U+D835>", "<U+DF83>">>,
     <<"<U+D835>", "<U+DF84>">>, <<"<U+D835>", "<U+DF85>">>, <<"<U+D835>", "<U+DF86>">>,
     <<"<U+D835>", "<U+DF87>">>, <<"<U+D835>", "<U+DF88>">>, <<"<U+D835>", "<U+DF8A>">>,
     <<"<U+D835>", "<U+DF8B>">>, <<"<U+D835>", "<U+DF8C>">>, <<"<U+D835>", "<U+DF8D>">>,
     <<"<U+D835>", "<U+DF8E>">>, <<"<U+D835>", "<U+DF8F>">>, <<"<U+D835>", "<U+DF90>">>,
     <<"<U+D835>", "<U+DF91>">>, <<"<U+D835>", "<U+DF92>">>, <<"<U+D835>", "<U+DF93>">>,
     <<"<U+D835>", "<U+DF94>">>, <<"<U+D835>", "<U+DF95>">>, <<"<U+D835>", "<U+DF96>">>,
     <<"<U+D835>", "<U+DF97>">>, <<"<U+D835>", "<U+DF98>">>, <<"<U+D835>", "<U+DF99>">>,
     <<"<U+D835>", "<U+DF9A>">>, <<"<U+D835>", "<U+DF9B>">>, <<"<U+D835>", "<U+DF9C>">>,
     <<"<U+D835>", "<U+DF9D>">>, <<"<U+D835>", "<U+DF9E>">>, <<"<U+D835>", "<U+DF9F>">>,
     <<"<U+D835>", "<U+DFA0>">>, <<"<U+D835>", "<U+DFA1>">>, <<"<U+D835>", "<U+DFA2>">>,
     <<"<U+D835>", "<U+DFA3>">>, <<"<U+D835>", "<U+DFA4>">>, <<"<U+D835>", "<U+DFA5>">>,
     <<"<U+D835>", "<U+DFA6>">>, <<"<U+D835>", "<U+DFA7>">>, <<"<U+D835>", "<U+DFA8>">>,
     <<"<U+D835>", "<U+DFAA>">>, <<"<U+D835>", "<U+DFAB>">>, <<"<U+D835>", "<U+DFAC>">>,
     <<"<U+D835>", "<U+DFAD>">>, <<"<U+D835>", "<U+DFAE>">>, <<"<U+D835>", "<U+DFAF>">>,
     <<"<U+D835>", "<U+DFB0>">>, <<"<U+D835>", "<U+DFB1>">>, <<"<U+D835>", "<U+DFB2>">>,
     <<"<U+D835>", "<U+DFB3>">>, <<"<U+D835>", "<U+DFB4>">>, <<"<U+D835>", "<U+DFB5>">>,
     <<"<U+D835>", "<U+DFB6>">>, <<"<U+D835>", "<U+DFB7>">>, <<"<U+D835>", "<U+DFB8>">>,
     <<"<U+D835>", "<U+DFB9>">>, <<"<U+D835>", "<U+DFBA>">>, <<"<U+D835>", "<U+DFBB>">>,
     <<"<U+D835>", "<U+DFBC>">>, <<"<U+D835>", "<U+DFBD>">>, <<"<U+D835>", "<U+DFBE>">>,
     <<"<U+D835>", "<U+DFBF>">>, <<"<U+D835>", "<U+DFC0>">>, <<"<U+D835>", "<U+DFC1>">>,
     <<"<U+D835>", "<U+DFC2>">>, <<"<U+D835>", "<U+DFC4>">>, <<"<U+D835>", "<U+DFC5>">>,
     <<"<U+D835>", "<U+DFC6>">>, <<"<U+D835>", "<U+DFC7>">>, <<"<U+D835>", "<U+DFC8>">>,
     <<"<U+D835>", "<U+DFC9>">>, <<"<U+D835>", "<U+DFCA>">>, <<"<U+D835>", "<U+DFCB>">>,
     <<"<U+D837>", "<U+DF00>">>, <<"<U+D837>", "<U+DF01>">>, <<"<U+D837>", "<U+DF02>">>,
     <<"<U+D837>", "<U+DF03>">>, <<"<U+D837>", "<U+DF04>">>, <<"<U+D837>", "<U+DF05>">>,
     <<"<U+D837>", "<U+DF06>">>, <<"<U+D837>", "<U+DF07>">>, <<"<U+D837>", "<U+DF08>">>,
     <<"<U+D837>", "<U+DF09>">>, <<"<U+D837>", "<U+DF0B>">>, <<"<U+D837>", "<U+DF0C>">>,
     <<"<U+D837>", "<U+DF0D>">>, <<"<U+D837>", "<U+DF0E>">>, <<"<U+D837>", "<U+DF0F>">>,
     <<"<U+D837>", "<U+DF10>">>, <<"<U+D837>", "<U+DF11>">>, <<"<U+D837>", "<U+DF12>">>,
     <<"<U+D837>", "<U+DF13>">>, <<"<U+D837>", "<U+DF14>">>, <<"<U+D837>", "<U+DF15>">>,
     <<"<U+D837>", "<U+DF16>">>, <<"<U+D837>", "<U+DF17>">>, <<"<U+D837>", "<U+DF18>">>,
     <<"<U+D837>", "<U+DF19>">>, <<"<U+D837>", "<U+DF1A>">>, <<"<U+D837>", "<U+DF1B>">>,
     <<"<U+D837>", "<U+DF1C>">>, <<"<U+D837>", "<U+DF1D>">>, <<"<U+D837>", "<U+DF1E>">>,
     <<"<U+D837>", "<U+DF25>">>, <<"<U+D837>", "<U+DF26>">>, <<"<U+D837>", "<U+DF27>">>,
     <<"<U+D837>", "<U+DF28>">>, <<"<U+D837>", "<U+DF29>">>, <<"<U+D837>", "<U+DF2A>">>,
     <<"<U+D83A>", "<U+DD00>">>, <<"<U+D83A>", "<U+DD01>">>, <<"<U+D83A>", "<U+DD02>">>,
     <<"<U+D83A>", "<U+DD03>">>, <<"<U+D83A>", "<U+DD04>">>, <<"<U+D83A>", "<U+DD05>">>,
     <<"<U+D83A>", "<U+DD06>">>, <<"<U+D83A>", "<U+DD07>">>, <<"<U+D83A>", "<U+DD08>">>,
     <<"<U+D83A>", "<U+DD09>">>, <<"<U+D83A>", "<U+DD0A>">>, <<"<U+D83A>", "<U+DD0B>">>,
     <<"<U+D83A>", "<U+DD0C>">>, <<"<U+D83A>", "<U+DD0D>">>, <<"<U+D83A>", "<U+DD0E>">>,
     <<"<U+D83A>", "<U+DD0F>">>, <<"<U+D83A>", "<U+DD10>">>, <<"<U+D83A>", "<U+DD11>">>,
     <<"<U+D83A>", "<U+DD12>">>, <<"<U+D83A>", "<U+DD13>">>, <<"<U+D83A>", "<U+DD14>">>,
     <<"<U+D83A>", "<U+DD15>">>, <<"<U+D83A>", "<U+DD16>">>, <<"<U+D83A>", "<U+DD17>">>,
     <<"<U+D83A>", "<U+DD18>">>, <<"<U+D83A>", "<U+DD19>">>, <<"<U+D83A>", "<U+DD1A>">>,
     <<"<U+D83A>", "<U+DD1B>">>, <<"<U+D83A>", "<U+DD1C>">>, <<"<U+D83A>", "<U+DD1D>">>,
     <<"<U+D83A>", "<U+DD1E>">>, <<"<U+D83A>", "<U+DD1F>">>, <<"<U+D83A>", "<U+DD20>">>,
     <<"<U+D83A>", "<U+DD21>">>, <<"<U+D83A>", "<U+DD22>">>, <<"<U+D83A>", "<U+DD23>">>,
     <<"<U+D83A>", "<U+DD24>">>, <<"<U+D83A>", "<U+DD25>">>, <<"<U+D83A>", "<U+DD26>">>,
     <<"<U+D83A>", "<U+DD27>">>, <<"<U+D83A>", "<U+DD28>">>, <<"<U+D83A>", "<U+DD29>">>,
     <<"<U+D83A>", "<U+DD2A>">>, <<"<U+D83A>", "<U+DD2B>">>, <<"<U+D83A>", "<U+DD2C>">>,
     <<"<U+D83A>", "<U+DD2D>">>, <<"<U+D83A>", "<U+DD2E>">>, <<"<U+D83A>", "<U+DD2F>">>,
     <<"<U+D83A>", "<U+DD30>">>, <<"<U+D83A>", "<U+DD31>">>, <<"<U+D83A>", "<U+DD32>">>,
     <<"<U+D83A>", "<U+DD33>">>, <<"<U+D83A>", "<U+DD34>">>, <<"<U+D83A>", "<U+DD35>">>,
     <<"<U+D83A>", "<U+DD36>">>, <<"<U+D83A>", "<U+DD37>">>, <<"<U+D83A>", "<U+DD38>">>,
     <<"<U+D83A>", "<U+DD39>">>, <<"<U+D83A>", "<U+DD3A>">>, <<"<U+D83A>", "<U+DD3B>">>,
     <<"<U+D83A>", "<U+DD3C>">>, <<"<U+D83A>", "<U+DD3D>">>, <<"<U+D83A>", "<U+DD3E>">>,
     <<"<U+D83A>", "<U+DD3F>">>, <<"<U+D83A>", "<U+DD40>">>, <<"<U+D83A>", "<U+DD41>">>,
     <<"<U+D83A>", "<U+DD42>">>, <<"<U+D83A>", "<U+DD43>">>, <<"<U+D83C>", "<U+DD30>">>,
     <<"<U+D83C>", "<U+DD31>">>, <<"<U+D83C>", "<U+DD32>">>, <<"<U+D83C>", "<U+DD33>">>,
     <<"<U+D83C>", "<U+DD34>">>, <<"<U+D83C>", "<U+DD35>">>, <<"<U+D83C>", "<U+DD36>">>,
     <<"<U+D83C>", "<U+DD37>">>, <<"<U+D83C>", "<U+DD38>">>, <<"<U+D83C>", "<U+DD39>">>,
     <<"<U+D83C>", "<U+DD3A>">>, <<"<U+D83C>", "<U+DD3B>">>, <<"<U+D83C>", "<U+DD3C>">>,
     <<"<U+D83C>", "<U+DD3D>">>, <<"<U+D83C>", "<U+DD3E>">>, <<"<U+D83C>", "<U+DD3F>">>,
     <<"<U+D83C>", "<U+DD40>">>, <<"<U+D83C>", "<U+DD41>">>, <<"<U+D83C>", "<U+DD42>">>,
     <<"<U+D83C>", "<U+DD43>">>, <<"<U+D83C>", "<U+DD44>">>, <<"<U+D83C>", "<U+DD45>">>,
     <<"<U+D83C>", "<U+DD46>">>, <<"<U+D83C>", "<U+DD47>">>, <<"<U+D83C>", "<U+DD48>">>,
     <<"<U+D83C>", "<U+DD49>">>, <<"<U+D83C>", "<U+DD50>">>, <<"<U+D83C>", "<U+DD51>">>,
     <<"<U+D83C>", "<U+DD52>">>, <<"<U+D83C>", "<U+DD53>">>, <<"<U+D83C>", "<U+DD54>">>,
     <<"<U+D83C>", "<U+DD55>">>, <<"<U+D83C>", "<U+DD56>">>, <<"<U+D83C>", "<U+DD57>">>,
     <<"<U+D83C>", "<U+DD58>">>, <<"<U+D83C>", "<U+DD59>">>, <<"<U+D83C>", "<U+DD5A>">>,
     <<"<U+D83C>", "<U+DD5B>">>, <<"<U+D83C>", "<U+DD5C>">>, <<"<U+D83C>", "<U+DD5D>">>,
     <<"<U+D83C>", "<U+DD5E>">>, <<"<U+D83C>", "<U+DD5F>">>, <<"<U+D83C>", "<U+DD60>">>,
     <<"<U+D83C>", "<U+DD61>">>, <<"<U+D83C>", "<U+DD62>">>, <<"<U+D83C>", "<U+DD63>">>,
     <<"<U+D83C>", "<U+DD64>">>, <<"<U+D83C>", "<U+DD65>">>, <<"<U+D83C>", "<U+DD66>">>,
     <<"<U+D83C>", "<U+DD67>">>, <<"<U+D83C>", "<U+DD68>">>, <<"<U+D83C>", "<U+DD69>">>,
     <<"<U+D83C>", "<U+DD70>">>, <<"<U+D83C>", "<U+DD71>">>, <<"<U+D83C>", "<U+DD72>">>,
     <<"<U+D83C>", "<U+DD73>">>, <<"<U+D83C>", "<U+DD74>">>, <<"<U+D83C>", "<U+DD75>">>,
     <<"<U+D83C>", "<U+DD76>">>, <<"<U+D83C>", "<U+DD77>">>, <<"<U+D83C>", "<U+DD78>">>,
     <<"<U+D83C>", "<U+DD79>">>, <<"<U+D83C>", "<U+DD7A>">>, <<"<U+D83C>", "<U+DD7B>">>,
     <<"<U+D83C>", "<U+DD7C>">>, <<"<U+D83C>", "<U+DD7D>">>, <<"<U+D83C>", "<U+DD7E>">>,
     <<"<U+D83C>", "<U+DD7F>">>, <<"<U+D83C>", "<U+DD80>">>, <<"<U+D83C>", "<U+DD81>">>,
     <<"<U+D83C>", "<U+DD82>">>, <<"<U+D83C>", "<U+DD83>">>, <<"<U+D83C>", "<U+DD84>">>,
     <<"<U+D83C>", "<U+DD85>">>, <<"<U+D83C>", "<U+DD86>">>, <<"<U+D83C>", "<U+DD87>">>,
     <<"<U+D83C>", "<U+DD88>">>, <<"<U+D83C>", "<U+DD89>">>}

\* the case-ignorable characters: one code unit, and surrogate pairs
CaseIgnorableUnits ==
    {"'", ".", ":", "^", "<U+0060>", "¨", "­", "¯", "´", "·", "¸", "ʰ", "ʱ", "ʲ", "ʳ", "ʴ", "ʵ",
     "ʶ", "ʷ", "ʸ", "ʹ", "ʺ", "ʻ", "ʼ", "ʽ", "ʾ", "ʿ", "ˀ", "ˁ", "˂", "˃", "˄", "˅", "ˆ", "ˇ",
     "ˈ", "ˉ", "ˊ", "ˋ", "ˌ", "ˍ", "ˎ", "ˏ", "ː", "ˑ", "˒", "˓", "˔", "˕", "˖", "˗", "˘", "˙",
     "˚", "˛", "˜", "˝", "˞", "˟", "ˠ", "ˡ", "ˢ", "ˣ", "ˤ", "˥", "˦", "˧", "˨", "˩", "˪", "˫",
     "ˬ", "˭", "ˮ", "˯", "˰", "˱", "˲", "˳", "˴", "˵", "˶", "˷", "˸", "˹", "˺", "˻", "˼", "˽",
     "˾", "˿", "<U+0300>", "<U+0301>", "<U+0302>", "<U+0303>", "<U+0304>", "<U+0305>",
     "<U+0306>", "<U+0307>", "<U+0308>", "<U+0309>", "<U+030A>", "<U+030B>", "<U+030C>",
     "<U+030D>", "<U+030E>", "<U+030F>", "<U+0310>", "<U+0311>", "<U+0312>", "<U+0313>",
     "<U+0314>", "<U+0315>", "<U+0316>", "<U+0317>", "<U+0318>", "<U+0319>", "<U+031A>",
     "<U+031B>", "<U+031C>", "<U+031D>", "<U+031E>", "<U+031F>", "<U+0320>", "<U+0321>",
     "<U+0322>", "<U+0323>", "<U+0324>", "<U+0325>", "<U+0326>", "<U+0327>", "<U+0328>",
     "<U+0329>", "<U+032A>", "<U+032B>", "<U+032C>", "<U+032D>", "<U+032E>", "<U+032F>",
     "<U+0330>", "<U+0331>", "<U+0332>", "<U+0333>", "<U+0334>", "<U+0335>", "<U+0336>",
     "<U+0337>", "<U+0338>", "<U+0339>", "<U+033A>", "<U+033B>", "<U+033C>", "<U+033D>",
     "<U+033E>", "<U+033F>", "<U+0340>", "<U+0341>", "<U+0342>", "<U+0343>", "<U+0344>",
     "<U+0345>", "<U+0346>", "<U+0347>", "<U+0348>", "<U+0349>", "<U+034A>", "<U+034B>",
     "<U+034C>", "<U+034D>", "<U+034E>", "<U+034F>", "<U+0350>", "<U+0351>", "<U+0352>",
     "<U+0353>", "<U+0354>", "<U+0355>", "<U+0356>", "<U+0357>", "<U+0358>", "<U+0359>",
     "<U+035A>", "<U+035B>", "<U+035C>", "<U+035D>", "<U+035E>", "<U+035F>", "<U+0360>",
     "<U+0361>", "<U+0362>", "<U+0363>", "<U+0364>", "<U+0365>", "<U+0366>", "<U+0367>",
     "<U+0368>", "<U+0369>", "<U+036A>", "<U+036B>", "<U+036C>", "<U+036D>", "<U+036E>",
     "<U+036F>", "<U+0374>", "<U+0375>", "<U+037A>", "΄", "΅", "·", "҃", "҄", "҅", "҆", "҇",
     "҈", "҉", "<U+0559>", "<U+055F>", "֑", "֒", "֓", "֔", "֕", "֖", "֗", "֘", "֙", "֚", "֛",
     "֜", "֝", "֞", "֟", "֠", "֡", "֢", "֣", "֤", "֥", "֦", "֧", "֨", "֩", "֪", "֫", "֬", "֭",
     "֮", "֯", "ְ", "ֱ", "ֲ", "ֳ", "ִ", "ֵ", "ֶ", "ַ", "ָ", "ֹ", "ֺ", "ֻ", "ּ", "ֽ", "ֿ", "ׁ",
     "ׂ", "ׄ", "ׅ", "ׇ", "״", "<U+0600>", "<U+0601>", "<U+0602>", "<U+0603>", "<U+0604>",
     "<U+0605>", "<U+0610>", "<U+0611>", "<U+0612>", "<U+0613>", "<U+0614>", "<U+0615>",
     "<U+0616>", "<U+0617>", "<U+0618>", "<U+0619>", "<U+061A>", "<U+061C>", "<U+0640>",
     "<U+064B>", "<U+064C>", "<U+064D>", "<U+064E>", "<U+064F>", "<U+0650>", "<U+0651>",
     "<U+0652>", "<U+0653>", "<U+0654>", "<U+0655>", "<U+0656>", "<U+0657>", "<U+0658>",
     "<U+0659>", "<U+065A>", "<U+065B>", "<U+065C>", "<U+065D>", "<U+065E>", "<U+065F>",
     "<U+0670>", "ۖ", "ۗ", "ۘ", "ۙ", "ۚ", "ۛ", "ۜ", "۝", "۟", "۠", "ۡ", "ۢ", "ۣ", "ۤ", "ۥ", "ۦ",
     "ۧ", "ۨ", "۪", "۫", "۬", "ۭ", "<U+070F>", "<U+0711>", "<U+0730>", "<U+0731>", "<U+0732>",
     "<U+0733>", "<U+0734>", "<U+0735>", "<U+0736>", "<U+0737>", "<U+0738>", "<U+0739>",
     "<U+073A>", "<U+073B>", "<U+073C>", "<U+073D>", "<U+073E>", "<U+073F>", "<U+0740>",
     "<U+0741>", "<U+0742>", "<U+0743>", "<U+0744>", "<U+0745>", "<U+0746>", "<U+0747>",
     "<U+0748>", "<U+0749>", "<U+074A>", "ަ", "ާ", "ި", "ީ", "ު", "ޫ", "ެ", "ޭ", "ޮ", "ޯ", "ް",
     "߫", "߬", "߭", "߮", "߯", "߰", "߱", "߲", "߳", "ߴ", "ߵ", "ߺ", "߽", "<U+0816>", "<U+0817>",
     "<U+0818>", "<U+0819>", "<U+081A>", "<U+081B>", "<U+081C>", "<U+081D>", "<U+081E>",
     "<U+081F>", "<U+0820>", "<U+0821>", "<U+0822>", "<U+0823>", "<U+0824>", "<U+0825>",
     "<U+0826>", "<U+0827>", "<U+0828>", "<U+0829>", "<U+082A>", "<U+082B>", "<U+082C>",
     "<U+082D>", "<U+0859>", "<U+085A>", "<U+085B>", "࢈", "࢐", "࢑", "<U+0897>", "࢘", "࢙", "࢚",
     "࢛", "࢜", "࢝", "࢞", "࢟", "ࣉ", "࣊", "࣋", "࣌", "࣍", "࣎", "࣏", "࣐", "࣑", "࣒", "࣓", "ࣔ", "ࣕ",
     "ࣖ", "ࣗ", "ࣘ", "ࣙ", "ࣚ", "ࣛ", "ࣜ", "ࣝ", "ࣞ", "ࣟ", "࣠", "࣡", "࣢", "ࣣ", "ࣤ", "ࣥ", "ࣦ", "ࣧ",
     "ࣨ", "ࣩ", "࣪", "࣫", "࣬", "࣭", "࣮", "࣯", "ࣰ", "ࣱ", "ࣲ", "ࣳ", "ࣴ", "ࣵ", "ࣶ", "ࣷ", "ࣸ", "ࣹ",
     "ࣺ", "ࣻ", "ࣼ", "ࣽ", "ࣾ", "ࣿ", "<U+0900>", "<U+0901>", "<U+0902>", "<U+093A>", "<U+093C>",
     "<U+0941>", "<U+0942>", "<U+0943>", "<U+0944>", "<U+0945>", "<U+0946>", "<U+0947>",
     "<U+0948>", "<U+094D>", "<U+0951>", "<U+0952>", "<U+0953>", "<U+0954>", "<U+0955>",
     "<U+0956>", "<U+0957>", "<U+0962>", "<U+0963>", "<U+0971>", "ঁ", "়", "ু", "ূ", "ৃ", "ৄ",
     "্", "ৢ", "ৣ", "৾", "<U+0A01>", "<U+0A02>", "<U+0A3C>", "<U+0A41>", "<U+0A42>", "<U+0A47>",
     "<U+0A48>", "<U+0A4B>", "<U+0A4C>", "<U+0A4D>", "<U+0A51>", "<U+0A70>", "<U+0A71>",
     "<U+0A75>", "ઁ", "ં", "઼", "ુ", "ૂ", "ૃ", "ૄ", "ૅ", "ે", "ૈ", "્", "ૢ", "ૣ", "ૺ", "ૻ", "ૼ",
     "૽", "૾", "૿", "<U+0B01>", "<U+0B3C>", "<U+0B3F>", "<U+0B41>", "<U+0B42>", "<U+0B43>",
     "<U+0B44>", "<U+0B4D>", "<U+0B55>", "<U+0B56>", "<U+0B62>", "<U+0B63>", "ஂ", "ீ", "்",
     "<U+0C00>", "<U+0C04>", "<U+0C3C>", "<U+0C3E>", "<U+0C3F>", "<U+0C40>", "<U+0C46>",
     "<U+0C47>", "<U+0C48>", "<U+0C4A>", "<U+0C4B>", "<U+0C4C>", "<U+0C4D>", "<U+0C55>",
     "<U+0C56>", "<U+0C62>", "<U+0C63>", "ಁ", "಼", "ಿ", "ೆ", "ೌ", "್", "ೢ", "ೣ", "<U+0D00>",
     "<U+0D01>", "<U+0D3B>", "<U+0D3C>", "<U+0D41>", "<U+0D42>", "<U+0D43>", "<U+0D44>",
     "<U+0D4D>", "<U+0D62>", "<U+0D63>", "ඁ", "්", "ි", "ී", "ු", "ූ", "<U+0E31>", "<U+0E34>",
     "<U+0E35>", "<U+0E36>", "<U+0E37>", "<U+0E38>", "<U+0E39>", "<U+0E3A>", "<U+0E46>",
     "<U+0E47>", "<U+0E48>", "<U+0E49>", "<U+0E4A>", "<U+0E4B>", "<U+0E4C>", "<U+0E4D>",
     "<U+0E4E>", "ັ", "ິ", "ີ", "ຶ", "ື", "ຸ", "ູ", "຺", "ົ", "ຼ", "ໆ", "່", "້", "໊", "໋", "໌",
     "ໍ", "<U+0ECE>", "<U+0F18>", "<U+0F19>", "<U+0F35>", "<U+0F37>", "<U+0F39>", "<U+0F71>",
     "<U+0F72>", "<U+0F73>", "<U+0F74>", "<U+0F75>", "<U+0F76>", "<U+0F77>", "<U+0F78>",
     "<U+0F79>", "<U+0F7A>", "<U+0F7B>", "<U+0F7C>", "<U+0F7D>", "<U+0F7E>", "ྀ", "ཱྀ", "ྂ", "ྃ",
     "྄", "྆", "྇", "ྍ", "ྎ", "ྏ", "ྐ", "ྑ", "ྒ", "ྒྷ", "ྔ", "ྕ", "ྖ", "ྗ", "ྙ", "ྚ", "ྛ", "ྜ",
     "ྜྷ", "ྞ", "ྟ", "ྠ", "ྡ", "ྡྷ", "ྣ", "ྤ", "ྥ", "ྦ", "ྦྷ", "ྨ", "ྩ", "ྪ", "ྫ", "ྫྷ", "ྭ", "ྮ",
     "ྯ", "ྰ", "ྱ", "ྲ", "ླ", "ྴ", "ྵ", "ྶ", "ྷ", "ྸ", "ྐྵ", "ྺ", "ྻ", "ྼ", "࿆", "<U+102D>",
     "<U+102E>", "<U+102F>", "<U+1030>", "<U+1032>", "<U+1033>", "<U+1034>", "<U+1035>",
     "<U+1036>", "<U+1037>", "<U+1039>", "<U+103A>", "<U+103D>", "<U+103E>", "<U+1058>",
     "<U+1059>", "<U+105E>", "<U+105F>", "<U+1060>", "<U+1071>", "<U+1072>", "<U+1073>",
     "<U+1074>", "ႂ", "ႅ", "ႆ", "ႍ", "ႝ", "ჼ", "<U+135D>", "<U+135E>", "<U+135F>", "<U+1712>",
     "<U+1713>", "<U+1714>", "<U+1732>", "<U+1733>", "<U+1752>", "<U+1753>", "<U+1772>",
     "<U+1773>", "឴", "឵", "ិ", "ី", "ឹ", "ឺ", "ុ", "ូ", "ួ", "ំ", "៉", "៊", "់", "៌", "៍", "៎",
     "៏", "័", "៑", "្", "៓", "ៗ", "៝", "<U+180B>", "<U+180C>", "<U+180D>", "<U+180E>",
     "<U+180F>", "<U+1843>", "ᢅ", "ᢆ", "ᢩ", "<U+1920>", "<U+1921>", "<U+1922>", "<U+1927>",
     "<U+1928>", "<U+1932>", "<U+1939>", "<U+193A>", "<U+193B>", "<U+1A17>", "<U+1A18>",
     "<U+1A1B>", "<U+1A56>", "<U+1A58>", "<U+1A59>", "<U+1A5A>", "<U+1A5B>", "<U+1A5C>",
     "<U+1A5D>", "<U+1A5E>", "<U+1A60>", "<U+1A62>", "<U+1A65>", "<U+1A66>", "<U+1A67>",
     "<U+1A68>", "<U+1A69>", "<U+1A6A>", "<U+1A6B>", "<U+1A6C>", "<U+1A73>", "<U+1A74>",
     "<U+1A75>", "<U+1A76>", "<U+1A77>", "<U+1A78>", "<U+1A79>", "<U+1A7A>", "<U+1A7B>",
     "<U+1A7C>", "<U+1A7F>", "ᪧ", "᪰", "᪱", "᪲", "᪳", "᪴", "᪵", "᪶", "᪷", "᪸", "᪹", "᪺", "᪻",
     "᪼", "᪽", "᪾", "ᪿ", "ᫀ", "᫁", "᫂", "᫃", "᫄", "᫅", "᫆", "᫇", "᫈", "᫉", "᫊", "᫋", "ᫌ", "ᫍ",
     "ᫎ", "<U+1ACF>", "<U+1AD0>", "<U+1AD1>", "<U+1AD2>", "<U+1AD3>", "<U+1AD4>", "<U+1AD5>",
     "<U+1AD6>", "<U+1AD7>", "<U+1AD8>", "<U+1AD9>", "<U+1ADA>", "<U+1ADB>", "<U+1ADC>",
     "<U+1ADD>", "<U+1AE0>", "<U+1AE1>", "<U+1AE2>", "<U+1AE3>", "<U+1AE4>", "<U+1AE5>",
     "<U+1AE6>", "<U+1AE7>", "<U+1AE8>", "<U+1AE9>", "<U+1AEA>", "<U+1AEB>", "<U+1B00>",
     "<U+1B01>", "<U+1B02>", "<U+1B03>", "<U+1B34>", "<U+1B36>", "<U+1B37>", "<U+1B38>",
     "<U+1B39>", "<U+1B3A>", "<U+1B3C>", "<U+1B42>", "<U+1B6B>", "<U+1B6C>", "<U+1B6D>",
     "<U+1B6E>", "<U+1B6F>", "<U+1B70>", "<U+1B71>", "<U+1B72>", "<U+1B73>", "ᮀ", "ᮁ", "ᮢ", "ᮣ",
     "ᮤ", "ᮥ", "ᮨ", "ᮩ", "᮫", "ᮬ", "ᮭ", "᯦", "ᯨ", "ᯩ", "ᯭ", "ᯯ", "ᯰ", "ᯱ", "<U+1C2C>",
     "<U+1C2D>", "<U+1C2E>", "<U+1C2F>", "<U+1C30>", "<U+1C31>", "<U+1C32>", "<U+1C33>",
     "<U+1C36>", "<U+1C37>", "<U+1C78>", "<U+1C79>", "<U+1C7A>", "<U+1C7B>", "<U+1C7C>",
     "<U+1C7D>", "᳐", "᳑", "᳒", "᳔", "᳕", "᳖", "᳗", "᳘", "᳙", "᳚", "᳛", "᳜", "᳝", "᳞", "᳟", "᳠",
     "᳢", "᳣", "᳤", "᳥", "᳦", "᳧", "᳨", "᳭", "᳴", "᳸", "᳹", "<U+1D2C>", "<U+1D2D>", "<U+1D2E>",
     "<U+1D2F>", "<U+1D30>", "<U+1D31>", "<U+1D32>", "<U+1D33>", "<U+1D34>", "<U+1D35>",
     "<U+1D36>", "<U+1D37>", "<U+1D38>", "<U+1D39>", "<U+1D3A>", "<U+1D3B>", "<U+1D3C>",
     "<U+1D3D>", "<U+1D3E>", "<U+1D3F>", "<U+1D40>", "<U+1D41>", "<U+1D42>", "<U+1D43>",
     "<U+1D44>", "<U+1D45>", "<U+1D46>", "<U+1D47>", "<U+1D48>", "<U+1D49>", "<U+1D4A>",
     "<U+1D4B>", "<U+1D4C>", "<U+1D4D>", "<U+1D4E>", "<U+1D4F>", "<U+1D50>", "<U+1D51>",
     "<U+1D52>", "<U+1D53>", "<U+1D54>", "<U+1D55>", "<U+1D56>", "<U+1D57>", "<U+1D58>",
     "<U+1D59>", "<U+1D5A>", "<U+1D5B>", "<U+1D5C>", "<U+1D5D>", "<U+1D5E>", "<U+1D5F>",
     "<U+1D60>", "<U+1D61>", "<U+1D62>", "<U+1D63>", "<U+1D64>", "<U+1D65>", "<U+1D66>",
     "<U+1D67>", "<U+1D68>", "<U+1D69>", "<U+1D6A>", "<U+1D78>", "ᶛ", "ᶜ", "ᶝ", "ᶞ", "ᶟ", "ᶠ",
     "ᶡ", "ᶢ", "ᶣ", "ᶤ", "ᶥ", "ᶦ", "ᶧ", "ᶨ", "ᶩ", "ᶪ", "ᶫ", "ᶬ", "ᶭ", "ᶮ", "ᶯ", "ᶰ", "ᶱ", "ᶲ",
     "ᶳ", "ᶴ", "ᶵ", "ᶶ", "ᶷ", "ᶸ", "ᶹ", "ᶺ", "ᶻ", "ᶼ", "ᶽ", "ᶾ", "ᶿ", "᷀", "᷁", "᷂", "᷃", "᷄",
     "᷅", "᷆", "᷇", "᷈", "᷉", "᷊", "᷋", "᷌", "᷍", "᷎", "᷏", "᷐", "᷑", "᷒", "ᷓ", "ᷔ", "ᷕ", "ᷖ",
     "ᷗ", "ᷘ", "ᷙ", "ᷚ", "ᷛ", "ᷜ", "ᷝ", "ᷞ", "ᷟ", "ᷠ", "ᷡ", "ᷢ", "ᷣ", "ᷤ", "ᷥ", "ᷦ", "ᷧ", "ᷨ",
     "ᷩ", "ᷪ", "ᷫ", "ᷬ", "ᷭ", "ᷮ", "ᷯ", "ᷰ", "ᷱ", "ᷲ", "ᷳ", "ᷴ", "᷵", "᷶", "᷷", "᷸", "᷹", "᷺",
     "᷻", "᷼", "᷽", "᷾", "᷿", "᾽", "᾿", "῀", "῁", "῍", "῎", "῏", "῝", "῞", "῟", "῭", "΅", "`",
     "´", "῾", "<U+200B>", "<U+200C>", "<U+200D>", "<U+200E>", "<U+200F>", "<U+2018>",
     "<U+2019>", "<U+2024>", "<U+2027>", "<U+202A>", "<U+202B>", "<U+202C>", "<U+202D>",
     "<U+202E>", "<U+2060>", "<U+2061>", "<U+2062>", "<U+2063>", "<U+2064>", "<U+2066>",
     "<U+2067>", "<U+2068>", "<U+2069>", "<U+206A>", "<U+206B>", "<U+206C>", "<U+206D>",
     "<U+206E>", "<U+206F>", "<U+2071>", "<U+207F>", "ₐ", "ₑ", "ₒ", "ₓ", "ₔ", "ₕ", "ₖ", "ₗ",
     "ₘ", "ₙ", "ₚ", "ₛ", "ₜ", "⃐", "⃑", "⃒", "⃓", "⃔", "⃕", "⃖", "⃗", "⃘", "⃙", "⃚", "⃛", "⃜",
     "⃝", "⃞", "⃟", "⃠", "⃡", "⃢", "⃣", "⃤", "⃥", "⃦", "⃧", "⃨", "⃩", "⃪", "⃫", "⃬", "⃭", "⃮",
     "⃯", "⃰", "<U+2C7C>", "<U+2C7D>", "⳯", "⳰", "⳱", "<U+2D6F>", "<U+2D7F>", "ⷠ", "ⷡ", "ⷢ",
     "ⷣ", "ⷤ", "ⷥ", "ⷦ", "ⷧ", "ⷨ", "ⷩ", "ⷪ", "ⷫ", "ⷬ", "ⷭ", "ⷮ", "ⷯ", "ⷰ", "ⷱ", "ⷲ", "ⷳ", "ⷴ",
     "ⷵ", "ⷶ", "ⷷ", "ⷸ", "ⷹ", "ⷺ", "ⷻ", "ⷼ", "ⷽ", "ⷾ", "ⷿ", "<U+2E2F>", "<U+3005>", "<U+302A>",
     "<U+302B>", "<U+302C>", "<U+302D>", "<U+3031>", "<U+3032>", "<U+3033>", "<U+3034>",
     "<U+3035>", "<U+303B>", "゙", "゚", "゛", "゜", "ゝ", "ゞ", "ー", "ヽ", "ヾ", "<U+A015>", "ꓸ", "ꓹ",
     "ꓺ", "ꓻ", "ꓼ", "ꓽ", "<U+A60C>", "<U+A66F>", "<U+A670>", "<U+A671>", "<U+A672>", "<U+A674>",
     "<U+A675>", "<U+A676>", "<U+A677>", "<U+A678>", "<U+A679>", "<U+A67A>", "<U+A67B>",
     "<U+A67C>", "<U+A67D>", "<U+A67F>", "ꚜ", "ꚝ", "ꚞ", "ꚟ", "꛰", "꛱", "<U+A700>", "<U+A701>",
     "<U+A702>", "<U+A703>", "<U+A704>", "<U+A705>", "<U+A706>", "<U+A707>", "<U+A708>",
     "<U+A709>", "<U+A70A>", "<U+A70B>", "<U+A70C>", "<U+A70D>", "<U+A70E>", "<U+A70F>",
     "<U+A710>", "<U+A711>", "<U+A712>", "<U+A713>", "<U+A714>", "<U+A715>", "<U+A716>",
     "<U+A717>", "<U+A718>", "<U+A719>", "<U+A71A>", "<U+A71B>", "<U+A71C>", "<U+A71D>",
     "<U+A71E>", "<U+A71F>", "<U+A720>", "<U+A721>", "<U+A770>", "ꞈ", "꞉", "꞊", "<U+A7F1>", "ꟲ",
     "ꟳ", "ꟴ", "ꟸ", "ꟹ", "<U+A802>", "<U+A806>", "<U+A80B>", "<U+A825>", "<U+A826>", "<U+A82C>",
     "꣄", "ꣅ", "꣠", "꣡", "꣢", "꣣", "꣤", "꣥", "꣦", "꣧", "꣨", "꣩", "꣪", "꣫", "꣬", "꣭", "꣮", "꣯",
     "꣰", "꣱", "ꣿ", "<U+A926>", "<U+A927>", "<U+A928>", "<U+A929>", "<U+A92A>", "<U+A92B>",
     "<U+A92C>", "<U+A92D>", "<U+A947>", "<U+A948>", "<U+A949>", "<U+A94A>", "<U+A94B>",
     "<U+A94C>", "<U+A94D>", "<U+A94E>", "<U+A94F>", "<U+A950>", "<U+A951>", "ꦀ", "ꦁ", "ꦂ", "꦳",
     "ꦶ", "ꦷ", "ꦸ", "ꦹ", "ꦼ", "ꦽ", "ꧏ", "ꧥ", "ꧦ", "<U+AA29>", "<U+AA2A>", "<U+AA2B>",
     "<U+AA2C>", "<U+AA2D>", "<U+AA2E>", "<U+AA31>", "<U+AA32>", "<U+AA35>", "<U+AA36>",
     "<U+AA43>", "<U+AA4C>", "<U+AA70>", "<U+AA7C>", "ꪰ", "ꪲ", "ꪳ", "ꪴ", "ꪷ", "ꪸ", "ꪾ", "꪿",
     "꫁", "ꫝ", "ꫬ", "ꫭ", "ꫳ", "ꫴ", "꫶", "<U+AB5B>", "<U+AB5C>", "<U+AB5D>", "<U+AB5E>",
     "<U+AB5F>", "<U+AB69>", "<U+AB6A>", "<U+AB6B>", "ꯥ", "ꯨ", "꯭", "<U+FB1E>", "﮲", "﮳", "﮴",
     "﮵", "﮶", "﮷", "﮸", "﮹", "﮺", "﮻", "﮼", "﮽", "﮾", "﮿", "﯀", "﯁", "﯂", "<U+FE00>",
     "<U+FE01>", "<U+FE02>", "<U+FE03>", "<U+FE04>", "<U+FE05>", "<U+FE06>", "<U+FE07>",
     "<U+FE08>", "<U+FE09>", "<U+FE0A>", "<U+FE0B>", "<U+FE0C>", "<U+FE0D>", "<U+FE0E>",
     "<U+FE0F>", "<U+FE13>", "<U+FE20>", "<U+FE21>", "<U+FE22>", "<U+FE23>", "<U+FE24>",
     "<U+FE25>", "<U+FE26>", "<U+FE27>", "<U+FE28>", "<U+FE29>", "<U+FE2A>", "<U+FE2B>",
     "<U+FE2C>", "<U+FE2D>", "<U+FE2E>", "<U+FE2F>", "<U+FE52>", "<U+FE55>", "﻿", "<U+FF07>",
     "<U+FF0E>", "<U+FF1A>", "<U+FF3E>", "<U+FF40>", "<U+FF70>", "ﾞ", "ﾟ", "￣", "￹", "￺", "￻"}

CaseIgnorablePairs ==
    {<<"<U+D800>", "<U+DDFD>">>, <<"<U+D800>", "<U+DEE0>">>, <<"<U+D800>", "<U+DF76>">>,
     <<"<U+D800>", "<U+DF77>">>, <<"<U+D800>", "<U+DF78>">>, <<"<U+D800>", "<U+DF79>">>,
     <<"<U+D800>", "<U+DF7A>">>, <<"<U+D801>", "<U+DF80>">>, <<"<U+D801>", "<U+DF81>">>,
     <<"<U+D801>", "<U+DF82>">>, <<"<U+D801>", "<U+DF83>">>, <<"<U+D801>", "<U+DF84>">>,
     <<"<U+D801>", "<U+DF85>">>, <<"<U+D801>", "<U+DF87>">>, <<"<U+D801>", "<U+DF88>">>,
     <<"<U+D801>", "<U+DF89>">>, <<"<U+D801>", "<U+DF8A>">>, <<"<U+D801>", "<U+DF8B>">>,
     <<"<U+D801>", "<U+DF8C>">>, <<"<U+D801>", "<U+DF8D>">>, <<"<U+D801>", "<U+DF8E>">>,
     <<"<U+D801>", "<U+DF8F>">>, <<"<U+D801>", "<U+DF90>">>, <<"<U+D801>", "<U+DF91>">>,
     <<"<U+D801>", "<U+DF92>">>, <<"<U+D801>", "<U+DF93>">>, <<"<U+D801>", "<U+DF94>">>,
     <<"<U+D801>", "<U+DF95>">>, <<"<U+D801>", "<U+DF96>">>, <<"<U+D801>", "<U+DF97>">>,
     <<"<U+D801>", "<U+DF98>">>, <<"<U+D801>", "<U+DF99>">>, <<"<U+D801>", "<U+DF9A>">>,
     <<"<U+D801>", "<U+DF9B>">>, <<"<U+D801>", "<U+DF9C>">>, <<"<U+D801>", "<U+DF9D>">>,
     <<"<U+D801>", "<U+DF9E>">>, <<"<U+D801>", "<U+DF9F>">>, <<"<U+D801>", "<U+DFA0>">>,
     <<"<U+D801>", "<U+DFA1>">>, <<"<U+D801>", "<U+DFA2>">>, <<"<U+D801>", "<U+DFA3>">>,
     <<"<U+D801>", "<U+DFA4>">>, <<"<U+D801>", "<U+DFA5>">>, <<"<U+D801>", "<U+DFA6>">>,
     <<"<U+D801>", "<U+DFA7>">>, <<"<U+D801>", "<U+DFA8>">>, <<"<U+D801>", "<U+DFA9>">>,
     <<"<U+D801>", "<U+DFAA>">>, <<"<U+D801>", "<U+DFAB>">>, <<"<U+D801>", "<U+DFAC>">>,
     <<"<U+D801>", "<U+DFAD>">>, <<"<U+D801>", "<U+DFAE>">>, <<"<U+D801>", "<U+DFAF>">>,
     <<"<U+D801>", "<U+DFB0>">>, <<"<U+D801>", "<U+DFB2>">>, <<"<U+D801>", "<U+DFB3>">>,
     <<"<U+D801>", "<U+DFB4>">>, <<"<U+D801>", "<U+DFB5>">>, <<"<U+D801>", "<U+DFB6>">>,
     <<"<U+D801>", "<U+DFB7>">>, <<"<U+D801>", "<U+DFB8>">>, <<"<U+D801>", "<U+DFB9>">>,
     <<"<U+D801>", "<U+DFBA>">>, <<"<U+D802>", "<U+DE01>">>, <<"<U+D802>", "<U+DE02>">>,
     <<"<U+D802>", "<U+DE03>">>, <<"<U+D802>", "<U+DE05>">>, <<"<U+D802>", "<U+DE06>">>,
     <<"<U+D802>", "<U+DE0C>">>, <<"<U+D802>", "<U+DE0D>">>, <<"<U+D802>", "<U+DE0E>">>,
     <<"<U+D802>", "<U+DE0F>">>, <<"<U+D802>", "<U+DE38>">>, <<"<U+D802>", "<U+DE39>">>,
     <<"<U+D802>", "<U+DE3A>">>, <<"<U+D802>", "<U+DE3F>">>, <<"<U+D802>", "<U+DEE5>">>,
     <<"<U+D802>", "<U+DEE6>">>, <<"<U+D803>", "<U+DD24>">>, <<"<U+D803>", "<U+DD25>">>,
     <<"<U+D803>", "<U+DD26>">>, <<"<U+D803>", "<U+DD27>">>, <<"<U+D803>", "<U+DD4E>">>,
     <<"<U+D803>", "<U+DD69>">>, <<"<U+D803>", "<U+DD6A>">>, <<"<U+D803>", "<U+DD6B>">>,
     <<"<U+D803>", "<U+DD6C>">>, <<"<U+D803>", "<U+DD6D>">>, <<"<U+D803>", "<U+DD6F>">>,
     <<"<U+D803>", "<U+DEAB>">>, <<"<U+D803>", "<U+DEAC>">>, <<"<U+D803>", "<U+DEC5>">>,
     <<"<U+D803>", "<U+DEFA>">>, <<"<U+D803>", "<U+DEFB>">>, <<"<U+D803>", "<U+DEFC>">>,
     <<"<U+D803>", "<U+DEFD>">>, <<"<U+D803>", "<U+DEFE>">>, <<"<U+D803>", "<U+DEFF>">>,
     <<"<U+D803>", "<U+DF46>">>, <<"<U+D803>", "<U+DF47>">>, <<"<U+D803>", "<U+DF48>">>,
     <<"<U+D803>", "<U+DF49>">>, <<"<U+D803>", "<U+DF4A>">>, <<"<U+D803>", "<U+DF4B>">>,
     <<"<U+D803>", "<U+DF4C>">>, <<"<U+D803>", "<U+DF4D>">>, <<"<U+D803>", "<U+DF4E>">>,
     <<"<U+D803>", "<U+DF4F>">>, <<"<U+D803>", "<U+DF50>">>, <<"<U+D803>", "<U+DF82>">>,
     <<"<U+D803>", "<U+DF83>">>, <<"<U+D803>", "<U+DF84>">>, <<"<U+D803>", "<U+DF85>">>,
     <<"<U+D804>", "<U+DC01>">>, <<"<U+D804>", "<U+DC38>">>, <<"<U+D804>", "<U+DC39>">>,
     <<"<U+D804>", "<U+DC3A>">>, <<"<U+D804>", "<U+DC3B>">>, <<"<U+D804>", "<U+DC3C>">>,
     <<"<U+D804>", "<U+DC3D>">>, <<"<U+D804>", "<U+DC3E>">>, <<"<U+D804>", "<U+DC3F>">>,
     <<"<U+D804>", "<U+DC40>">>, <<"<U+D804>", "<U+DC41>">>, <<"<U+D804>", "<U+DC42>">>,
     <<"<U+D804>", "<U+DC43>">>, <<"<U+D804>", "<U+DC44>">>, <<"<U+D804>", "<U+DC45>">>,
     <<"<U+D804>", "<U+DC46>">>, <<"<U+D804>", "<U+DC70>">>, <<"<U+D804>", "<U+DC73>">>,
     <<"<U+D804>", "<U+DC74>">>, <<"<U+D804>", "<U+DC7F>">>, <<"<U+D804>", "<U+DC80>">>,
     <<"<U+D804>", "<U+DC81>">>, <<"<U+D804>", "<U+DCB3>">>, <<"<U+D804>", "<U+DCB4>">>,
     <<"<U+D804>", "<U+DCB5>">>, <<"<U+D804>", "<U+DCB6>">>, <<"<U+D804>", "<U+DCB9>">>,
     <<"<U+D804>", "<U+DCBA>">>, <<"<U+D804>", "<U+DCBD>">>, <<"<U+D804>", "<U+DCC2>">>,
     <<"<U+D804>", "<U+DCCD>">>, <<"<U+D804>", "<U+DD00>">>, <<"<U+D804>", "<U+DD01>">>,
     <<"<U+D804>", "<U+DD02>">>, <<"<U+D804>", "<U+DD27>">>, <<"<U+D804>", "<U+DD28>">>,
     <<"<U+D804>", "<U+DD29>">>, <<"<U+D804>", "<U+DD2A>">>, <<"<U+D804>", "<U+DD2B>">>,
     <<"<U+D804>", "<U+DD2D>">>, <<"<U+D804>", "<U+DD2E>">>, <<"<U+D804>", "<U+DD2F>">>,
     <<"<U+D804>", "<U+DD30>">>, <<"<U+D804>", "<U+DD31>">>, <<"<U+D804>", "<U+DD32>">>,
     <<"<U+D804>", "<U+DD33>">>, <<"<U+D804>", "<U+DD34>">>, <<"<U+D804>", "<U+DD73>">>,
     <<"<U+D804>", "<U+DD80>">>, <<"<U+D804>", "<U+DD81>">>, <<"<U+D804>", "<U+DDB6>">>,
     <<"<U+D804>", "<U+DDB7>">>, <<"<U+D804>", "<U+DDB8>">>, <<"<U+D804>", "<U+DDB9>">>,
     <<"<U+D804>", "<U+DDBA>">>, <<"<U+D804>", "<U+DDBB>">>, <<"<U+D804>", "<U+DDBC>">>,
     <<"<U+D804>", "<U+DDBD>">>, <<"<U+D804>", "<U+DDBE>">>, <<"<U+D804>", "<U+DDC9>">>,
     <<"<U+D804>", "<U+DDCA>">>, <<"<U+D804>", "<U+DDCB>">>, <<"<U+D804>", "<U+DDCC>">>,
     <<"<U+D804>", "<U+DDCF>">>, <<"<U+D804>", "<U+DE2F>">>, <<"<U+D804>", "<U+DE30>">>,
     <<"<U+D804>", "<U+DE31>">>, <<"<U+D804>", "<U+DE34>">>, <<"<U+D804>", "<U+DE36>">>,
     <<"<U+D804>", "<U+DE37>">>, <<"<U+D804>", "<U+DE3E>">>, <<"<U+D804>", "<U+DE41>">>,
     <<"<U+D804>", "<U+DEDF>">>, <<"<U+D804>", "<U+DEE3>">>, <<"<U+D804>", "<U+DEE4>">>,
     <<"<U+D804>", "<U+DEE5>">>, <<"<U+D804>", "<U+DEE6>">>, <<"<U+D804>", "<U+DEE7>">>,
     <<"<U+D804>", "<U+DEE8>">>, <<"<U+D804>", "<U+DEE9>">>, <<"<U+D804>", "<U+DEEA>">>,
     <<"<U+D804>", "<U+DF00>">>, <<"<U+D804>", "<U+DF01>">>, <<"<U+D804>", "<U+DF3B>">>,
     <<"<U+D804>", "<U+DF3C>">>, <<"<U+D804>", "<U+DF40>">>, <<"<U+D804>", "<U+DF66>">>,
     <<"<U+D804>", "<U+DF67>">>, <<"<U+D804>", "<U+DF68>">>, <<"<U+D804>", "<U+DF69>">>,
     <<"<U+D804>", "<U+DF6A>">>, <<"<U+D804>", "<U+DF6B>">>, <<"<U+D804>", "<U+DF6C>">>,
     <<"<U+D804>", "<U+DF70>">>, <<"<U+D804>", "<U+DF71>">>, <<"<U+D804>", "<U+DF72>">>,
     <<"<U+D804>", "<U+DF73>">>, <<"<U+D804>", "<U+DF74>">>, <<"<U+D804>", "<U+DFBB>">>,
     <<"<U+D804>", "<U+DFBC>">>, <<"<U+D804>", "<U+DFBD>">>, <<"<U+D804>", "<U+DFBE>">>,
     <<"<U+D804>", "<U+DFBF>">>, <<"<U+D804>", "<U+DFC0>">>, <<"<U+D804>", "<U+DFCE>">>,
     <<"<U+D804>", "<U+DFD0>">>, <<"<U+D804>", "<U+DFD2>">>, <<"<U+D804>", "<U+DFE1>">>,
     <<"<U+D804>", "<U+DFE2>">>, <<"<U+D805>", "<U+DC38>">>, <<"<U+D805>", "<U+DC39>">>,
     <<"<U+D805>", "<U+DC3A>">>, <<"<U+D805>", "<U+DC3B>">>, <<"<U+D805>", "<U+DC3C>">>,
     <<"<U+D805>", "<U+DC3D>">>, <<"<U+D805>", "<U+DC3E>">>, <<"<U+D805>", "<U+DC3F>">>,
     <<"<U+D805>", "<U+DC42>">>, <<"<U+D805>", "<U+DC43>">>, <<"<U+D805>", "<U+DC44>">>,
     <<"<U+D805>", "<U+DC46>">>, <<"<U+D805>", "<U+DC5E>">>, <<"<U+D805>", "<U+DCB3>">>,
     <<"<U+D805>", "<U+DCB4>">>, <<"<U+D805>", "<U+DCB5>">>, <<"<U+D805>", "<U+DCB6>">>,
     <<"<U+D805>", "<U+DCB7>">>, <<"<U+D805>", "<U+DCB8>">>, <<"<U+D805>", "<U+DCBA>">>,
     <<"<U+D805>", "<U+DCBF>">>, <<"<U+D805>", "<U+DCC0>">>, <<"<U+D805>", "<U+DCC2>">>,
     <<"<U+D805>", "<U+DCC3>">>, <<"<U+D805>", "<U+DDB2>">>, <<"<U+D805>", "<U+DDB3>">>,
     <<"<U+D805>", "<U+DDB4>">>, <<"<U+D805>", "<U+DDB5>">>, <<"<U+D805>", "<U+DDBC>">>,
     <<"<U+D805>", "<U+DDBD>">>, <<"<U+D805>", "<U+DDBF>">>, <<"<U+D805>", "<U+DDC0>">>,
     <<"<U+D805>", "<U+DDDC>">>, <<"<U+D805>", "<U+DDDD>">>, <<"<U+D805>", "<U+DE33>">>,
     <<"<U+D805>", "<U+DE34>">>, <<"<U+D805>", "<U+DE35>">>, <<"<U+D805>", "<U+DE36>">>,
     <<"<U+D805>", "<U+DE37>">>, <<"<U+D805>", "<U+DE38>">>, <<"<U+D805>", "<U+DE39>">>,
     <<"<U+D805>", "<U+DE3A>">>, <<"<U+D805>", "<U+DE3D>">>, <<"<U+D805>", "<U+DE3F>">>,
     <<"<U+D805>", "<U+DE40>">>, <<"<U+D805>", "<U+DEAB>">>, <<"<U+D805>", "<U+DEAD>">>,
     <<"<U+D805>", "<U+DEB0>">>, <<"<U+D805>", "<U+DEB1>">>, <<"<U+D805>", "<U+DEB2>">>,
     <<"<U+D805>", "<U+DEB3>">>, <<"<U+D805>", "<U+DEB4>">>, <<"<U+D805>", "<U+DEB5>">>,
     <<"<U+D805>", "<U+DEB7>">>, <<"<U+D805>", "<U+DF1D>">>, <<"<U+D805>", "<U+DF1F>">>,
     <<"<U+D805>", "<U+DF22>">>, <<"<U+D805>", "<U+DF23>">>, <<"<U+D805>", "<U+DF24>">>,
     <<"<U+D805>", "<U+DF25>">>, <<"<U+D805>", "<U+DF27>">>, <<"<U+D805>", "<U+DF28>">>,
     <<"<U+D805>", "<U+DF29>">>, <<"<U+D805>", "<U+DF2A>">>, <<"<U+D805>", "<U+DF2B>">>,
     <<"<U+D806>", "<U+DC2F>">>, <<"<U+D806>", "<U+DC30>">>, <<"<U+D806>", "<U+DC31>">>,
     <<"<U+D806>", "<U+DC32>">>, <<"<U+D806>", "<U+DC33>">>, <<"<U+D806>", "<U+DC34>">>,
     <<"<U+D806>", "<U+DC35>">>, <<"<U+D806>", "<U+DC36>">>, <<"<U+D806>", "<U+DC37>">>,
     <<"<U+D806>", "<U+DC39>">>, <<"<U+D806>", "<U+DC3A>">>, <<"<U+D806>", "<U+DD3B>">>,
     <<"<U+D806>", "<U+DD3C>">>, <<"<U+D806>", "<U+DD3E>">>, <<"<U+D806>", "<U+DD43>">>,
     <<"<U+D806>", "<U+DDD4>">>, <<"<U+D806>", "<U+DDD5>">>, <<"<U+D806>", "<U+DDD6>">>,
     <<"<U+D806>", "<U+DDD7>">>, <<"<U+D806>", "<U+DDDA>">>, <<"<U+D806>", "<U+DDDB>">>,
     <<"<U+D806>", "<U+DDE0>">>, <<"<U+D806>", "<U+DE01>">>, <<"<U+D806>", "<U+DE02>">>,
     <<"<U+D806>", "<U+DE03>">>, <<"<U+D806>", "<U+DE04>">>, <<"<U+D806>", "<U+DE05>">>,
     <<"<U+D806>", "<U+DE06>">>, <<"<U+D806>", "<U+DE07>">>, <<"<U+D806>", "<U+DE08>">>,
     <<"<U+D806>", "<U+DE09>">>, <<"<U+D806>", "<U+DE0A>">>, <<"<U+D806>", "<U+DE33>">>,
     <<"<U+D806>", "<U+DE34>">>, <<"<U+D806>", "<U+DE35>">>, <<"<U+D806>", "<U+DE36>">>,
     <<"<U+D806>", "<U+DE37>">>, <<"<U+D806>", "<U+DE38>">>, <<"<U+D806>", "<U+DE3B>">>,
     <<"<U+D806>", "<U+DE3C>">>, <<"<U+D806>", "<U+DE3D>">>, <<"<U+D806>", "<U+DE3E>">>,
     <<"<U+D806>", "<U+DE47>">>, <<"<U+D806>", "<U+DE51>">>, <<"<U+D806>", "<U+DE52>">>,
     <<"<U+D806>", "<U+DE53>">>, <<"<U+D806>", "<U+DE54>">>, <<"<U+D806>", "<U+DE55>">>,
     <<"<U+D806>", "<U+DE56>">>, <<"<U+D806>", "<U+DE59>">>, <<"<U+D806>", "<U+DE5A>">>,
     <<"<U+D806>", "<U+DE5B>">>, <<"<U+D806>", "<U+DE8A>">>, <<"<U+D806>", "<U+DE8B>">>,
     <<"<U+D806>", "<U+DE8C>">>, <<"<U+D806>", "<U+DE8D>">>, <<"<U+D806>", "<U+DE8E>">>,
     <<"<U+D806>", "<U+DE8F>">>, <<"<U+D806>", "<U+DE90>">>, <<"<U+D806>", "<U+DE91>">>,
     <<"<U+D806>", "<U+DE92>">>, <<"<U+D806>", "<U+DE93>">>, <<"<U+D806>", "<U+DE94>">>,
     <<"<U+D806>", "<U+DE95>">>, <<"<U+D806>", "<U+DE96>">>, <<"<U+D806>", "<U+DE98>">>,
     <<"<U+D806>", "<U+DE99>">>, <<"<U+D806>", "<U+DF60>">>, <<"<U+D806>", "<U+DF62>">>,
     <<"<U+D806>", "<U+DF63>">>, <<"<U+D806>", "<U+DF64>">>, <<"<U+D806>", "<U+DF66>">>,
     <<"<U+D807>", "<U+DC30>">>, <<"<U+D807>", "<U+DC31>">>, <<"<U+D807>", "<U+DC32>">>,
     <<"<U+D807>", "<U+DC33>">>, <<"<U+D807>", "<U+DC34>">>, <<"<U+D807>", "<U+DC35>">>,
     <<"<U+D807>", "<U+DC36>">>, <<"<U+D807>", "<U+DC38>">>, <<"<U+D807>", "<U+DC39>">>,
     <<"<U+D807>", "<U+DC3A>">>, <<"<U+D807>", "<U+DC3B>">>, <<"<U+D807>", "<U+DC3C>">>,
     <<"<U+D807>", "<U+DC3D>">>, <<"<U+D807>", "<U+DC3F>">>, <<"<U+D807>", "<U+DC92>">>,
     <<"<U+D807>", "<U+DC93>">>, <<"<U+D807>", "<U+DC94>">>, <<"<U+D807>", "<U+DC95>">>,
     <<"<U+D807>", "<U+DC96>">>, <<"<U+D807>", "<U+DC97>">>, <<"<U+D807>", "<U+DC98>">>,
     <<"<U+D807>", "<U+DC99>">>, <<"<U+D807>", "<U+DC9A>">>, <<"<U+D807>", "<U+DC9B>">>,
     <<"<U+D807>", "<U+DC9C>">>, <<"<U+D807>", "<U+DC9D>">>, <<"<U+D807>", "<U+DC9E>">>,
     <<"<U+D807>", "<U+DC9F>">>, <<"<U+D807>", "<U+DCA0>">>, <<"<U+D807>", "<U+DCA1>">>,
     <<"<U+D807>", "<U+DCA2>">>, <<"<U+D807>", "<U+DCA3>">>, <<"<U+D807>", "<U+DCA4>">>,
     <<"<U+D807>", "<U+DCA5>">>, <<"<U+D807>", "<U+DCA6>">>, <<"<U+D807>", "<U+DCA7>">>,
     <<"<U+D807>", "<U+DCAA>">>, <<"<U+D807>", "<U+DCAB>">>, <<"<U+D807>", "<U+DCAC>">>,
     <<"<U+D807>", "<U+DCAD>">>, <<"<U+D807>", "<U+DCAE>">>, <<"<U+D807>", "<U+DCAF>">>,
     <<"<U+D807>", "<U+DCB0>">>, <<"<U+D807>", "<U+DCB2>">>, <<"<U+D807>", "<U+DCB3>">>,
     <<"<U+D807>", "<U+DCB5>">>, <<"<U+D807>", "<U+DCB6>">>, <<"<U+D807>", "<U+DD31>">>,
     <<"<U+D807>", "<U+DD32>">>, <<"<U+D807>", "<U+DD33>">>, <<"<U+D807>", "<U+DD34>">>,
     <<"<U+D807>", "<U+DD35>">>, <<"<U+D807>", "<U+DD36>">>, <<"<U+D807>", "<U+DD3A>">>,
     <<"<U+D807>", "<U+DD3C>">>, <<"<U+D807>", "<U+DD3D>">>, <<"<U+D807>", "<U+DD3F>">>,
     <<"<U+D807>", "<U+DD40>">>, <<"<U+D807>", "<U+DD41>">>, <<"<U+D807>", "<U+DD42>">>,
     <<"<U+D807>", "<U+DD43>">>, <<"<U+D807>", "<U+DD44>">>, <<"<U+D807>", "<U+DD45>">>,
     <<"<U+D807>", "<U+DD47>">>, <<"<U+D807>", "<U+DD90>">>, <<"<U+D807>", "<U+DD91>">>,
     <<"<U+D807>", "<U+DD95>">>, <<"<U+D807>", "<U+DD97>">>, <<"<U+D807>", "<U+DDD9>">>,
     <<"<U+D807>", "<U+DEF3>">>, <<"<U+D807>", "<U+DEF4>">>, <<"<U+D807>", "<U+DF00>">>,
     <<"<U+D807>", "<U+DF01>">>, <<"<U+D807>", "<U+DF36>">>, <<"<U+D807>", "<U+DF37>">>,
     <<"<U+D807>", "<U+DF38>">>, <<"<U+D807>", "<U+DF39>">>, <<"<U+D807>", "<U+DF3A>">>,
     <<"<U+D807>", "<U+DF40>">>, <<"<U+D807>", "<U+DF42>">>, <<"<U+D807>", "<U+DF5A>">>,
     <<"<U+D80D>", "<U+DC30>">>, <<"<U+D80D>", "<U+DC31>">>, <<"<U+D80D>", "<U+DC32>">>,
     <<"<U+D80D>", "<U+DC33>">>, <<"<U+D80D>", "<U+DC34>">>, <<"<U+D80D>", "<U+DC35>">>,
     <<"<U+D80D>", "<U+DC36>">>, <<"<U+D80D>", "<U+DC37>">>, <<"<U+D80D>", "<U+DC38>">>,
     <<"<U+D80D>", "<U+DC39>">>, <<"<U+D80D>", "<U+DC3A>">>, <<"<U+D80D>", "<U+DC3B>">>,
     <<"<U+D80D>", "<U+DC3C>">>, <<"<U+D80D>", "<U+DC3D>">>, <<"<U+D80D>", "<U+DC3E>">>,
     <<"<U+D80D>", "<U+DC3F>">>, <<"<U+D80D>", "<U+DC40>">>, <<"<U+D80D>", "<U+DC47>">>,
     <<"<U+D80D>", "<U+DC48>">>, <<"<U+D80D>", "<U+DC49>">>, <<"<U+D80D>", "<U+DC4A>">>,
     <<"<U+D80D>", "<U+DC4B>">>, <<"<U+D80D>", "<U+DC4C>">>, <<"<U+D80D>", "<U+DC4D>">>,
     <<"<U+D80D>", "<U+DC4E>">>, <<"<U+D80D>", "<U+DC4F>">>, <<"<U+D80D>", "<U+DC50>">>,
     <<"<U+D80D>", "<U+DC51>">>, <<"<U+D80D>", "<U+DC52>">>, <<"<U+D80D>", "<U+DC53>">>,
     <<"<U+D80D>", "<U+DC54>">>, <<"<U+D80D>", "<U+DC55>">>, <<"<U+D818>", "<U+DD1E>">>,
     <<"<U+D818>", "<U+DD1F>">>, <<"<U+D818>", "<U+DD20>">>, <<"<U+D818>", "<U+DD21>">>,
     <<"<U+D818>", "<U+DD22>">>, <<"<U+D818>", "<U+DD23>">>, <<"<U+D818>", "<U+DD24>">>,
     <<"<U+D818>", "<U+DD25>">>, <<"<U+D818>", "<U+DD26>">>, <<"<U+D818>", "<U+DD27>">>,
     <<"<U+D818>", "<U+DD28>">>, <<"<U+D818>", "<U+DD29>">>, <<"<U+D818>", "<U+DD2D>">>,
     <<"<U+D818>", "<U+DD2E>">>, <<"<U+D818>", "<U+DD2F>">>, <<"<U+D81A>", "<U+DEF0>">>,
     <<"<U+D81A>", "<U+DEF1>">>, <<"<U+D81A>", "<U+DEF2>">>, <<"<U+D81A>", "<U+DEF3>">>,
     <<"<U+D81A>", "<U+DEF4>">>, <<"<U+D81A>", "<U+DF30>">>, <<"<U+D81A>", "<U+DF31>">>,
     <<"<U+D81A>", "<U+DF32>">>, <<"<U+D81A>", "<U+DF33>">>, <<"<U+D81A>", "<U+DF34>">>,
     <<"<U+D81A>", "<U+DF35>">>, <<"<U+D81A>", "<U+DF36>">>, <<"<U+D81A>", "<U+DF40>">>,
     <<"<U+D81A>", "<U+DF41>">>, <<"<U+D81A>", "<U+DF42>">>, <<"<U+D81A>", "<U+DF43>">>,
     <<"<U+D81B>", "<U+DD40>">>, <<"<U+D81B>", "<U+DD41>">>, <<"<U+D81B>", "<U+DD42>">>,
     <<"<U+D81B>", "<U+DD6B>">>, <<"<U+D81B>", "<U+DD6C>">>, <<"<U+D81B>", "<U+DF4F>">>,
     <<"<U+D81B>", "<U+DF8F>">>, <<"<U+D81B>", "<U+DF90>">>, <<"<U+D81B>", "<U+DF91>">>,
     <<"<U+D81B>", "<U+DF92>">>, <<"<U+D81B>", "<U+DF93>">>, <<"<U+D81B>", "<U+DF94>">>,
     <<"<U+D81B>", "<U+DF95>">>, <<"<U+D81B>", "<U+DF96>">>, <<"<U+D81B>", "<U+DF97>">>,
     <<"<U+D81B>", "<U+DF98>">>, <<"<U+D81B>", "<U+DF99>">>, <<"<U+D81B>", "<U+DF9A>">>,
     <<"<U+D81B>", "<U+DF9B>">>, <<"<U+D81B>", "<U+DF9C>">>, <<"<U+D81B>", "<U+DF9D>">>,
     <<"<U+D81B>", "<U+DF9E>">>, <<"<U+D81B>", "<U+DF9F>">>, <<"<U+D81B>", "<U+DFE0>">>,
     <<"<U+D81B>", "<U+DFE1>">>, <<"<U+D81B>", "<U+DFE3>">>, <<"<U+D81B>", "<U+DFE4>">>,
     <<"<U+D81B>", "<U+DFF2>">>, <<"<U+D81B>", "<U+DFF3>">>, <<"<U+D82B>", "<U+DFF0>">>,
     <<"<U+D82B>", "<U+DFF1>">>, <<"<U+D82B>", "<U+DFF2>">>, <<"<U+D82B>", "<U+DFF3>">>,
     <<"<U+D82B>", "<U+DFF5>">>, <<"<U+D82B>", "<U+DFF6>">>, <<"<U+D82B>", "<U+DFF7>">>,
     <<"<U+D82B>", "<U+DFF8>">>, <<"<U+D82B>", "<U+DFF9>">>, <<"<U+D82B>", "<U+DFFA>">>,
     <<"<U+D82B>", "<U+DFFB>">>, <<"<U+D82B>", "<U+DFFD>">>, <<"<U+D82B>", "<U+DFFE>">>,
     <<"<U+D82F>", "<U+DC9D>">>, <<"<U+D82F>", "<U+DC9E>">>, <<"<U+D82F>", "<U+DCA0>">>,
     <<"<U+D82F>", "<U+DCA1>">>, <<"<U+D82F>", "<U+DCA2>">>, <<"<U+D82F>", "<U+DCA3>">>,
     <<"<U+D833>", "<U+DF00>">>, <<"<U+D833>", "<U+DF01>">>, <<"<U+D833>", "<U+DF02>">>,
     <<"<U+D833>", "<U+DF03>">>, <<"<U+D833>", "<U+DF04>">>, <<"<U+D833>", "<U+DF05>">>,
     <<"<U+D833>", "<U+DF06>">>, <<"<U+D833>", "<U+DF07>">>, <<"<U+D833>", "<U+DF08>">>,
     <<"<U+D833>", "<U+DF09>">>, <<"<U+D833>", "<U+DF0A>">>, <<"<U+D833>", "<U+DF0B>">>,
     <<"<U+D833>", "<U+DF0C>">>, <<"<U+D833>", "<U+DF0D>">>, <<"<U+D833>", "<U+DF0E>">>,
     <<"<U+D833>", "<U+DF0F>">>, <<"<U+D833>", "<U+DF10>">>, <<"<U+D833>", "<U+DF11>">>,
     <<"<U+D833>", "<U+DF12>">>, <<"<U+D833>", "<U+DF13>">>, <<"<U+D833>", "<U+DF14>">>,
     <<"<U+D833>", "<U+DF15>">>, <<"<U+D833>", "<U+DF16>">>, <<"<U+D833>", "<U+DF17>">>,
     <<"<U+D833>", "<U+DF18>">>, <<"<U+D833>", "<U+DF19>">>, <<"<U+D833>", "<U+DF1A>">>,
     <<"<U+D833>", "<U+DF1B>">>, <<"<U+D833>", "<U+DF1C>">>, <<"<U+D833>", "<U+DF1D>">>,
     <<"<U+D833>", "<U+DF1E>">>, <<"<U+D833>", "<U+DF1F>">>, <<"<U+D833>", "<U+DF20>">>,
     <<"<U+D833>", "<U+DF21>">>, <<"<U+D833>", "<U+DF22>">>, <<"<U+D833>", "<U+DF23>">>,
     <<"<U+D833>", "<U+DF24>">>, <<"<U+D833>", "<U+DF25>">>, <<"<U+D833>", "<U+DF26>">>,
     <<"<U+D833>", "<U+DF27>">>, <<"<U+D833>", "<U+DF28>">>, <<"<U+D833>", "<U+DF29>">>,
     <<"<U+D833>", "<U+DF2A>">>, <<"<U+D833>", "<U+DF2B>">>, <<"<U+D833>", "<U+DF2C>">>,
     <<"<U+D833>", "<U+DF2D>">>, <<"<U+D833>", "<U+DF30>">>, <<"<U+D833>", "<U+DF31>">>,
     <<"<U+D833>", "<U+DF32>">>, <<"<U+D833>", "<U+DF33>">>, <<"<U+D833>", "<U+DF34>">>,
     <<"<U+D833>", "<U+DF35>">>, <<"<U+D833>", "<U+DF36>">>, <<"<U+D833>", "<U+DF37>">>,
     <<"<U+D833>", "<U+DF38>">>, <<"<U+D833>", "<U+DF39>">>, <<"<U+D833>", "<U+DF3A>">>,
     <<"<U+D833>", "<U+DF3B>">>, <<"<U+D833>", "<U+DF3C>">>, <<"<U+D833>", "<U+DF3D>">>,
     <<"<U+D833>", "<U+DF3E>">>, <<"<U+D833>", "<U+DF3F>">>, <<"<U+D833>", "<U+DF40>">>,
     <<"<U+D833>", "<U+DF41>">>, <<"<U+D833>", "<U+DF42>">>, <<"<U+D833>", "<U+DF43>">>,
     <<"<U+D833>", "<U+DF44>">>, <<"<U+D833>", "<U+DF45>">>, <<"<U+D833>", "<U+DF46>">>,
     <<"<U+D834>", "<U+DD67>">>, <<"<U+D834>", "<U+DD68>">>, <<"<U+D834>", "<U+DD69>">>,
     <<"<U+D834>", "<U+DD73>">>, <<"<U+D834>", "<U+DD74>">>, <<"<U+D834>", "<U+DD75>">>,
     <<"<U+D834>", "<U+DD76>">>, <<"<U+D834>", "<U+DD77>">>, <<"<U+D834>", "<U+DD78>">>,
     <<"<U+D834>", "<U+DD79>">>, <<"<U+D834>", "<U+DD7A>">>, <<"<U+D834>", "<U+DD7B>">>,
     <<"<U+D834>", "<U+DD7C>">>, <<"<U+D834>", "<U+DD7D>">>, <<"<U+D834>", "<U+DD7E>">>,
     <<"<U+D834>", "<U+DD7F>">>, <<"<U+D834>", "<U+DD80>">>, <<"<U+D834>", "<U+DD81>">>,
     <<"<U+D834>", "<U+DD82>">>, <<"<U+D834>", "<U+DD85>">>, <<"<U+D834>", "<U+DD86>">>,
     <<"<U+D834>", "<U+DD87>">>, <<"<U+D834>", "<U+DD88>">>, <<"<U+D834>", "<U+DD89>">>,
     <<"<U+D834>", "<U+DD8A>">>, <<"<U+D834>", "<U+DD8B>">>, <<"<U+D834>", "<U+DDAA>">>,
     <<"<U+D834>", "<U+DDAB>">>, <<"<U+D834>", "<U+DDAC>">>, <<"<U+D834>", "<U+DDAD>">>,
     <<"<U+D834>", "<U+DE42>">>, <<"<U+D834>", "<U+DE43>">>, <<"<U+D834>", "<U+DE44>">>,
     <<"<U+D836>", "<U+DE00>">>, <<"<U+D836>", "<U+DE01>">>, <<"<U+D836>", "<U+DE02>">>,
     <<"<U+D836>", "<U+DE03>">>, <<"<U+D836>", "<U+DE04>">>, <<"<U+D836>", "<U+DE05>">>,
     <<"<U+D836>", "<U+DE06>">>, <<"<U+D836>", "<U+DE07>">>, <<"<U+D836>", "<U+DE08>">>,
     <<"<U+D836>", "<U+DE09>">>, <<"<U+D836>", "<U+DE0A>">>, <<"<U+D836>", "<U+DE0B>">>,
     <<"<U+D836>", "<U+DE0C>">>, <<"<U+D836>", "<U+DE0D>">>, <<"<U+D836>", "<U+DE0E>">>,
     <<"<U+D836>", "<U+DE0F>">>, <<"<U+D836>", "<U+DE10>">>, <<"<U+D836>", "<U+DE11>">>,
     <<"<U+D836>", "<U+DE12>">>, <<"<U+D836>", "<U+DE13>">>, <<"<U+D836>", "<U+DE14>">>,
     <<"<U+D836>", "<U+DE15>">>, <<"<U+D836>", "<U+DE16>">>, <<"<U+D836>", "<U+DE17>">>,
     <<"<U+D836>", "<U+DE18>">>, <<"<U+D836>", "<U+DE19>">>, <<"<U+D836>", "<U+DE1A>">>,
     <<"<U+D836>", "<U+DE1B>">>, <<"<U+D836>", "<U+DE1C>">>, <<"<U+D836>", "<U+DE1D>">>,
     <<"<U+D836>", "<U+DE1E>">>, <<"<U+D836>", "<U+DE1F>">>, <<"<U+D836>", "<U+DE20>">>,
     <<"<U+D836>", "<U+DE21>">>, <<"<U+D836>", "<U+DE22>">>, <<"<U+D836>", "<U+DE23>">>,
     <<"<U+D836>", "<U+DE24>">>, <<"<U+D836>", "<U+DE25>">>, <<"<U+D836>", "<U+DE26>">>,
     <<"<U+D836>", "<U+DE27>">>, <<"<U+D836>", "<U+DE28>">>, <<"<U+D836>", "<U+DE29>">>,
     <<"<U+D836>", "<U+DE2A>">>, <<"<U+D836>", "<U+DE2B>">>, <<"<U+D836>", "<U+DE2C>">>,
     <<"<U+D836>", "<U+DE2D>">>, <<"<U+D836>", "<U+DE2E>">>, <<"<U+D836>", "<U+DE2F>">>,
     <<"<U+D836>", "<U+DE30>">>, <<"<U+D836>", "<U+DE31>">>, <<"<U+D836>", "<U+DE32>">>,
     <<"<U+D836>", "<U+DE33>">>, <<"<U+D836>", "<U+DE34>">>, <<"<U+D836>", "<U+DE35>">>,
     <<"<U+D836>", "<U+DE36>">>, <<"<U+D836>", "<U+DE3B>">>, <<"<U+D836>", "<U+DE3C>">>,
     <<"<U+D836>", "<U+DE3D>">>, <<"<U+D836>", "<U+DE3E>">>, <<"<U+D836>", "<U+DE3F>">>,
     <<"<U+D836>", "<U+DE40>">>, <<"<U+D836>", "<U+DE41>">>, <<"<U+D836>", "<U+DE42>">>,
     <<"<U+D836>", "<U+DE43>">>, <<"<U+D836>", "<U+DE44>">>, <<"<U+D836>", "<U+DE45>">>,
     <<"<U+D836>", "<U+DE46>">>, <<"<U+D836>", "<U+DE47>">>, <<"<U+D836>", "<U+DE48>">>,
     <<"<U+D836>", "<U+DE49>">>, <<"<U+D836>", "<U+DE4A>">>, <<"<U+D836>", "<U+DE4B>">>,
     <<"<U+D836>", "<U+DE4C>">>, <<"<U+D836>", "<U+DE4D>">>, <<"<U+D836>", "<U+DE4E>">>,
     <<"<U+D836>", "<U+DE4F>">>, <<"<U+D836>", "<U+DE50>">>, <<"<U+D836>", "<U+DE51>">>,
     <<"<U+D836>", "<U+DE52>">>, <<"<U+D836>", "<U+DE53>">>, <<"<U+D836>", "<U+DE54>">>,
     <<"<U+D836>", "<U+DE55>">>, <<"<U+D836>", "<U+DE56>">>, <<"<U+D836>", "<U+DE57>">>,
     <<"<U+D836>", "<U+DE58>">>, <<"<U+D836>", "<U+DE59>">>, <<"<U+D836>", "<U+DE5A>">>,
     <<"<U+D836>", "<U+DE5B>">>, <<"<U+D836>", "<U+DE5C>">>, <<"<U+D836>", "<U+DE5D>">>,
     <<"<U+D836>", "<U+DE5E>">>, <<"<U+D836>", "<U+DE5F>">>, <<"<U+D836>", "<U+DE60>">>,
     <<"<U+D836>", "<U+DE61>">>, <<"<U+D836>", "<U+DE62>">>, <<"<U+D836>", "<U+DE63>">>,
     <<"<U+D836>", "<U+DE64>">>, <<"<U+D836>", "<U+DE65>">>, <<"<U+D836>", "<U+DE66>">>,
     <<"<U+D836>", "<U+DE67>">>, <<"<U+D836>", "<U+DE68>">>, <<"<U+D836>", "<U+DE69>">>,
     <<"<U+D836>", "<U+DE6A>">>, <<"<U+D836>", "<U+DE6B>">>, <<"<U+D836>", "<U+DE6C>">>,
     <<"<U+D836>", "<U+DE75>">>, <<"<U+D836>", "<U+DE84>">>, <<"<U+D836>", "<U+DE9B>">>,
     <<"<U+D836>", "<U+DE9C>">>, <<"<U+D836>", "<U+DE9D>">>, <<"<U+D836>", "<U+DE9E>">>,
     <<"<U+D836>", "<U+DE9F>">>, <<"<U+D836>", "<U+DEA1>">>, <<"<U+D836>", "<U+DEA2>">>,
     <<"<U+D836>", "<U+DEA3>">>, <<"<U+D836>", "<U+DEA4>">>, <<"<U+D836>", "<U+DEA5>">>,
     <<"<U+D836>", "<U+DEA6>">>, <<"<U+D836>", "<U+DEA7>">>, <<"<U+D836>", "<U+DEA8>">>,
     <<"<U+D836>", "<U+DEA9>">>, <<"<U+D836>", "<U+DEAA>">>, <<"<U+D836>", "<U+DEAB>">>,
     <<"<U+D836>", "<U+DEAC>">>, <<"<U+D836>", "<U+DEAD>">>, <<"<U+D836>", "<U+DEAE>">>,
     <<"<U+D836>", "<U+DEAF>">>, <<"<U+D838>", "<U+DC00>">>, <<"<U+D838>", "<U+DC01>">>,
     <<"<U+D838>", "<U+DC02>">>, <<"<U+D838>", "<U+DC03>">>, <<"<U+D838>", "<U+DC04>">>,
     <<"<U+D838>", "<U+DC05>">>, <<"<U+D838>", "<U+DC06>">>, <<"<U+D838>", "<U+DC08>">>,
     <<"<U+D838>", "<U+DC09>">>, <<"<U+D838>", "<U+DC0A>">>, <<"<U+D838>", "<U+DC0B>">>,
     <<"<U+D838>", "<U+DC0C>">>, <<"<U+D838>", "<U+DC0D>">>, <<"<U+D838>", "<U+DC0E>">>,
     <<"<U+D838>", "<U+DC0F>">>, <<"<U+D838>", "<U+DC10>">>, <<"<U+D838>", "<U+DC11>">>,
     <<"<U+D838>", "<U+DC12>">>, <<"<U+D838>", "<U+DC13>">>, <<"<U+D838>", "<U+DC14>">>,
     <<"<U+D838>", "<U+DC15>">>, <<"<U+D838>", "<U+DC16>">>, <<"<U+D838>", "<U+DC17>">>,
     <<"<U+D838>", "<U+DC18>">>, <<"<U+D838>", "<U+DC1B>">>, <<"<U+D838>", "<U+DC1C>">>,
     <<"<U+D838>", "<U+DC1D>">>, <<"<U+D838>", "<U+DC1E>">>, <<"<U+D838>", "<U+DC1F>">>,
     <<"<U+D838>", "<U+DC20>">>, <<"<U+D838>", "<U+DC21>">>, <<"<U+D838>", "<U+DC23>">>,
     <<"<U+D838>", "<U+DC24>">>, <<"<U+D838>", "<U+DC26>">>, <<"<U+D838>", "<U+DC27>">>,
     <<"<U+D838>", "<U+DC28>">>, <<"<U+D838>", "<U+DC29>">>, <<"<U+D838>", "<U+DC2A>">>,
     <<"<U+D838>", "<U+DC30>">>, <<"<U+D838>", "<U+DC31>">>, <<"<U+D838>", "<U+DC32>">>,
     <<"<U+D838>", "<U+DC33>">>, <<"<U+D838>", "<U+DC34>">>, <<"<U+D838>", "<U+DC35>">>,
     <<"<U+D838>", "<U+DC36>">>, <<"<U+D838>", "<U+DC37>">>, <<"<U+D838>", "<U+DC38>">>,
     <<"<U+D838>", "<U+DC39>">>, <<"<U+D838>", "<U+DC3A>">>, <<"<U+D838>", "<U+DC3B>">>,
     <<"<U+D838>", "<U+DC3C>">>, <<"<U+D838>", "<U+DC3D>">>, <<"<U+D838>", "<U+DC3E>">>,
     <<"<U+D838>", "<U+DC3F>">>, <<"<U+D838>", "<U+DC40>">>, <<"<U+D838>", "<U+DC41>">>,
     <<"<U+D838>", "<U+DC42>">>, <<"<U+D838>", "<U+DC43>">>, <<"<U+D838>", "<U+DC44>">>,
     <<"<U+D838>", "<U+DC45>">>, <<"<U+D838>", "<U+DC46>">>, <<"<U+D838>", "<U+DC47>">>,
     <<"<U+D838>", "<U+DC48>">>, <<"<U+D838>", "<U+DC49>">>, <<"<U+D838>", "<U+DC4A>">>,
     <<"<U+D838>", "<U+DC4B>">>, <<"<U+D838>", "<U+DC4C>">>, <<"<U+D838>", "<U+DC4D>">>,
     <<"<U+D838>", "<U+DC4E>">>, <<"<U+D838>", "<U+DC4F>">>, <<"<U+D838>", "<U+DC50>">>,
     <<"<U+D838>", "<U+DC51>">>, <<"<U+D838>", "<U+DC52>">>, <<"<U+D838>", "<U+DC53>">>,
     <<"<U+D838>", "<U+DC54>">>, <<"<U+D838>", "<U+DC55>">>, <<"<U+D838>", "<U+DC56>">>,
     <<"<U+D838>", "<U+DC57>">>, <<"<U+D838>", "<U+DC58>">>, <<"<U+D838>", "<U+DC59>">>,
     <<"<U+D838>", "<U+DC5A>">>, <<"<U+D838>", "<U+DC5B>">>, <<"<U+D838>", "<U+DC5C>">>,
     <<"<U+D838>", "<U+DC5D>">>, <<"<U+D838>", "<U+DC5E>">>, <<"<U+D838>", "<U+DC5F>">>,
     <<"<U+D838>", "<U+DC60>">>, <<"<U+D838>", "<U+DC61>">>, <<"<U+D838>", "<U+DC62>">>,
     <<"<U+D838>", "<U+DC63>">>, <<"<U+D838>", "<U+DC64>">>, <<"<U+D838>", "<U+DC65>">>,
     <<"<U+D838>", "<U+DC66>">>, <<"<U+D838>", "<U+DC67>">>, <<"<U+D838>", "<U+DC68>">>,
     <<"<U+D838>", "<U+DC69>">>, <<"<U+D838>", "<U+DC6A>">>, <<"<U+D838>", "<U+DC6B>">>,
     <<"<U+D838>", "<U+DC6C>">>, <<"<U+D838>", "<U+DC6D>">>, <<"<U+D838>", "<U+DC8F>">>,
     <<"<U+D838>", "<U+DD30>">>, <<"<U+D838>", "<U+DD31>">>, <<"<U+D838>", "<U+DD32>">>,
     <<"<U+D838>", "<U+DD33>">>, <<"<U+D838>", "<U+DD34>">>, <<"<U+D838>", "<U+DD35>">>,
     <<"<U+D838>", "<U+DD36>">>, <<"<U+D838>", "<U+DD37>">>, <<"<U+D838>", "<U+DD38>">>,
     <<"<U+D838>", "<U+DD39>">>, <<"<U+D838>", "<U+DD3A>">>, <<"<U+D838>", "<U+DD3B>">>,
     <<"<U+D838>", "<U+DD3C>">>, <<"<U+D838>", "<U+DD3D>">>, <<"<U+D838>", "<U+DEAE>">>,
     <<"<U+D838>", "<U+DEEC>">>, <<"<U+D838>", "<U+DEED>">>, <<"<U+D838>", "<U+DEEE>">>,
     <<"<U+D838>", "<U+DEEF>">>, <<"<U+D839>", "<U+DCEB>">>, <<"<U+D839>", "<U+DCEC>">>,
     <<"<U+D839>", "<U+DCED>">>, <<"<U+D839>", "<U+DCEE>">>, <<"<U+D839>", "<U+DCEF>">>,
     <<"<U+D839>", "<U+DDEE>">>, <<"<U+D839>", "<U+DDEF>">>, <<"<U+D839>", "<U+DEE3>">>,
     <<"<U+D839>", "<U+DEE6>">>, <<"<U+D839>", "<U+DEEE>">>, <<"<U+D839>", "<U+DEEF>">>,
     <<"<U+D839>", "<U+DEF5>">>, <<"<U+D839>", "<U+DEFF>">>, <<"<U+D83A>", "<U+DCD0>">>,
     <<"<U+D83A>", "<U+DCD1>">>, <<"<U+D83A>", "<U+DCD2>">>, <<"<U+D83A>", "<U+DCD3>">>,
     <<"<U+D83A>", "<U+DCD4>">>, <<"<U+D83A>", "<U+DCD5>">>, <<"<U+D83A>", "<U+DCD6>">>,
     <<"<U+D83A>", "<U+DD44>">>, <<"<U+D83A>", "<U+DD45>">>, <<"<U+D83A>", "<U+DD46>">>,
     <<"<U+D83A>", "<U+DD47>">>, <<"<U+D83A>", "<U+DD48>">>, <<"<U+D83A>", "<U+DD49>">>,
     <<"<U+D83A>", "<U+DD4A>">>, <<"<U+D83A>", "<U+DD4B>">>, <<"<U+D83C>", "<U+DFFB>">>,
     <<"<U+D83C>", "<U+DFFC>">>, <<"<U+D83C>", "<U+DFFD>">>, <<"<U+D83C>", "<U+DFFE>">>,
     <<"<U+D83C>", "<U+DFFF>">>, <<"<U+DB40>", "<U+DC01>">>, <<"<U+DB40>", "<U+DC20>">>,
     <<"<U+DB40>", "<U+DC21>">>, <<"<U+DB40>", "<U+DC22>">>, <<"<U+DB40>", "<U+DC23>">>,
     <<"<U+DB40>", "<U+DC24>">>, <<"<U+DB40>", "<U+DC25>">>, <<"<U+DB40>", "<U+DC26>">>,
     <<"<U+DB40>", "<U+DC27>">>, <<"<U+DB40>", "<U+DC28>">>, <<"<U+DB40>", "<U+DC29>">>,
     <<"<U+DB40>", "<U+DC2A>">>, <<"<U+DB40>", "<U+DC2B>">>, <<"<U+DB40>", "<U+DC2C>">>,
     <<"<U+DB40>", "<U+DC2D>">>, <<"<U+DB40>", "<U+DC2E>">>, <<"<U+DB40>", "<U+DC2F>">>,
     <<"<U+DB40>", "<U+DC30>">>, <<"<U+DB40>", "<U+DC31>">>, <<"<U+DB40>", "<U+DC32>">>,
     <<"<U+DB40>", "<U+DC33>">>, <<"<U+DB40>", "<U+DC34>">>, <<"<U+DB40>", "<U+DC35>">>,
     <<"<U+DB40>", "<U+DC36>">>, <<"<U+DB40>", "<U+DC37>">>, <<"<U+DB40>", "<U+DC38>">>,
     <<"<U+DB40>", "<U+DC39>">>, <<"<U+DB40>", "<U+DC3A>">>, <<"<U+DB40>", "<U+DC3B>">>,
     <<"<U+DB40>", "<U+DC3C>">>, <<"<U+DB40>", "<U+DC3D>">>, <<"<U+DB40>", "<U+DC3E>">>,
     <<"<U+DB40>", "<U+DC3F>">>, <<"<U+DB40>", "<U+DC40>">>, <<"<U+DB40>", "<U+DC41>">>,
     <<"<U+DB40>", "<U+DC42>">>, <<"<U+DB40>", "<U+DC43>">>, <<"<U+DB40>", "<U+DC44>">>,
     <<"<U+DB40>", "<U+DC45>">>, <<"<U+DB40>", "<U+DC46>">>, <<"<U+DB40>", "<U+DC47>">>,
     <<"<U+DB40>", "<U+DC48>">>, <<"<U+DB40>", "<U+DC49>">>, <<"<U+DB40>", "<U+DC4A>">>,
     <<"<U+DB40>", "<U+DC4B>">>, <<"<U+DB40>", "<U+DC4C>">>, <<"<U+DB40>", "<U+DC4D>">>,
     <<"<U+DB40>", "<U+DC4E>">>, <<"<U+DB40>", "<U+DC4F>">>, <<"<U+DB40>", "<U+DC50>">>,
     <<"<U+DB40>", "<U+DC51>">>, <<"<U+DB40>", "<U+DC52>">>, <<"<U+DB40>", "<U+DC53>">>,
     <<"<U+DB40>", "<U+DC54>">>, <<"<U+DB40>", "<U+DC55>">>, <<"<U+DB40>", "<U+DC56>">>,
     <<"<U+DB40>", "<U+DC57>">>, <<"<U+DB40>", "<U+DC58>">>, <<"<U+DB40>", "<U+DC59>">>,
     <<"<U+DB40>", "<U+DC5A>">>, <<"<U+DB40>", "<U+DC5B>">>, <<"<U+DB40>", "<U+DC5C>">>,
     <<"<U+DB40>", "<U+DC5D>">>, <<"<U+DB40>", "<U+DC5E>">>, <<"<U+DB40>", "<U+DC5F>">>,
     <<"<U+DB40>", "<U+DC60>">>, <<"<U+DB40>", "<U+DC61>">>, <<"<U+DB40>", "<U+DC62>">>,
     <<"<U+DB40>", "<U+DC63>">>, <<"<U+DB40>", "<U+DC64>">>, <<"<U+DB40>", "<U+DC65>">>,
     <<"<U+DB40>", "<U+DC66>">>, <<"<U+DB40>", "<U+DC67>">>, <<"<U+DB40>", "<U+DC68>">>,
     <<"<U+DB40>", "<U+DC69>">>, <<"<U+DB40>", "<U+DC6A>">>, <<"<U+DB40>", "<U+DC6B>">>,
     <<"<U+DB40>", "<U+DC6C>">>, <<"<U+DB40>", "<U+DC6D>">>, <<"<U+DB40>", "<U+DC6E>">>,
     <<"<U+DB40>", "<U+DC6F>">>, <<"<U+DB40>", "<U+DC70>">>, <<"<U+DB40>", "<U+DC71>">>,
     <<"<U+DB40>", "<U+DC72>">>, <<"<U+DB40>", "<U+DC73>">>, <<"<U+DB40>", "<U+DC74>">>,
     <<"<U+DB40>", "<U+DC75>">>, <<"<U+DB40>", "<U+DC76>">>, <<"<U+DB40>", "<U+DC77>">>,
     <<"<U+DB40>", "<U+DC78>">>, <<"<U+DB40>", "<U+DC79>">>, <<"<U+DB40>", "<U+DC7A>">>,
     <<"<U+DB40>", "<U+DC7B>">>, <<"<U+DB40>", "<U+DC7C>">>, <<"<U+DB40>", "<U+DC7D>">>,
     <<"<U+DB40>", "<U+DC7E>">>, <<"<U+DB40>", "<U+DC7F>">>, <<"<U+DB40>", "<U+DD00>">>,
     <<"<U+DB40>", "<U+DD01>">>, <<"<U+DB40>", "<U+DD02>">>, <<"<U+DB40>", "<U+DD03>">>,
     <<"<U+DB40>", "<U+DD04>">>, <<"<U+DB40>", "<U+DD05>">>, <<"<U+DB40>", "<U+DD06>">>,
     <<"<U+DB40>", "<U+DD07>">>, <<"<U+DB40>", "<U+DD08>">>, <<"<U+DB40>", "<U+DD09>">>,
     <<"<U+DB40>", "<U+DD0A>">>, <<"<U+DB40>", "<U+DD0B>">>, <<"<U+DB40>", "<U+DD0C>">>,
     <<"<U+DB40>", "<U+DD0D>">>, <<"<U+DB40>", "<U+DD0E>">>, <<"<U+DB40>", "<U+DD0F>">>,
     <<"<U+DB40>", "<U+DD10>">>, <<"<U+DB40>", "<U+DD11>">>, <<"<U+DB40>", "<U+DD12>">>,
     <<"<U+DB40>", "<U+DD13>">>, <<"<U+DB40>", "<U+DD14>">>, <<"<U+DB40>", "<U+DD15>">>,
     <<"<U+DB40>", "<U+DD16>">>, <<"<U+DB40>", "<U+DD17>">>, <<"<U+DB40>", "<U+DD18>">>,
     <<"<U+DB40>", "<U+DD19>">>, <<"<U+DB40>", "<U+DD1A>">>, <<"<U+DB40>", "<U+DD1B>">>,
     <<"<U+DB40>", "<U+DD1C>">>, <<"<U+DB40>", "<U+DD1D>">>, <<"<U+DB40>", "<U+DD1E>">>,
     <<"<U+DB40>", "<U+DD1F>">>, <<"<U+DB40>", "<U+DD20>">>, <<"<U+DB40>", "<U+DD21>">>,
     <<"<U+DB40>", "<U+DD22>">>, <<"<U+DB40>", "<U+DD23>">>, <<"<U+DB40>", "<U+DD24>">>,
     <<"<U+DB40>", "<U+DD25>">>, <<"<U+DB40>", "<U+DD26>">>, <<"<U+DB40>", "<U+DD27>">>,
     <<"<U+DB40>", "<U+DD28>">>, <<"<U+DB40>", "<U+DD29>">>, <<"<U+DB40>", "<U+DD2A>">>,
     <<"<U+DB40>", "<U+DD2B>">>, <<"<U+DB40>", "<U+DD2C>">>, <<"<U+DB40>", "<U+DD2D>">>,
     <<"<U+DB40>", "<U+DD2E>">>, <<"<U+DB40>", "<U+DD2F>">>, <<"<U+DB40>", "<U+DD30>">>,
     <<"<U+DB40>", "<U+DD31>">>, <<"<U+DB40>", "<U+DD32>">>, <<"<U+DB40>", "<U+DD33>">>,
     <<"<U+DB40>", "<U+DD34>">>, <<"<U+DB40>", "<U+DD35>">>, <<"<U+DB40>", "<U+DD36>">>,
     <<"<U+DB40>", "<U+DD37>">>, <<"<U+DB40>", "<U+DD38>">>, <<"<U+DB40>", "<U+DD39>">>,
     <<"<U+DB40>", "<U+DD3A>">>, <<"<U+DB40>", "<U+DD3B>">>, <<"<U+DB40>", "<U+DD3C>">>,
     <<"<U+DB40>", "<U+DD3D>">>, <<"<U+DB40>", "<U+DD3E>">>, <<"<U+DB40>", "<U+DD3F>">>,
     <<"<U+DB40>", "<U+DD40>">>, <<"<U+DB40>", "<U+DD41>">>, <<"<U+DB40>", "<U+DD42>">>,
     <<"<U+DB40>", "<U+DD43>">>, <<"<U+DB40>", "<U+DD44>">>, <<"<U+DB40>", "<U+DD45>">>,
     <<"<U+DB40>", "<U+DD46>">>, <<"<U+DB40>", "<U+DD47>">>, <<"<U+DB40>", "<U+DD48>">>,
     <<"<U+DB40>", "<U+DD49>">>, <<"<U+DB40>", "<U+DD4A>">>, <<"<U+DB40>", "<U+DD4B>">>,
     <<"<U+DB40>", "<U+DD4C>">>, <<"<U+DB40>", "<U+DD4D>">>, <<"<U+DB40>", "<U+DD4E>">>,
     <<"<U+DB40>", "<U+DD4F>">>, <<"<U+DB40>", "<U+DD50>">>, <<"<U+DB40>", "<U+DD51>">>,
     <<"<U+DB40>", "<U+DD52>">>, <<"<U+DB40>", "<U+DD53>">>, <<"<U+DB40>", "<U+DD54>">>,
     <<"<U+DB40>", "<U+DD55>">>, <<"<U+DB40>", "<U+DD56>">>, <<"<U+DB40>", "<U+DD57>">>,
     <<"<U+DB40>", "<U+DD58>">>, <<"<U+DB40>", "<U+DD59>">>, <<"<U+DB40>", "<U+DD5A>">>,
     <<"<U+DB40>", "<U+DD5B>">>, <<"<U+DB40>", "<U+DD5C>">>, <<"<U+DB40>", "<U+DD5D>">>,
     <<"<U+DB40>", "<U+DD5E>">>, <<"<U+DB40>", "<U+DD5F>">>, <<"<U+DB40>", "<U+DD60>">>,
     <<"<U+DB40>", "<U+DD61>">>, <<"<U+DB40>", "<U+DD62>">>, <<"<U+DB40>", "<U+DD63>">>,
     <<"<U+DB40>", "<U+DD64>">>, <<"<U+DB40>", "<U+DD65>">>, <<"<U+DB40>", "<U+DD66>">>,
     <<"<U+DB40>", "<U+DD67>">>, <<"<U+DB40>", "<U+DD68>">>, <<"<U+DB40>", "<U+DD69>">>,
     <<"<U+DB40>", "<U+DD6A>">>, <<"<U+DB40>", "<U+DD6B>">>, <<"<U+DB40>", "<U+DD6C>">>,
     <<"<U+DB40>", "<U+DD6D>">>, <<"<U+DB40>", "<U+DD6E>">>, <<"<U+DB40>", "<U+DD6F>">>,
     <<"<U+DB40>", "<U+DD70>">>, <<"<U+DB40>", "<U+DD71>">>, <<"<U+DB40>", "<U+DD72>">>,
     <<"<U+DB40>", "<U+DD73>">>, <<"<U+DB40>", "<U+DD74>">>, <<"<U+DB40>", "<U+DD75>">>,
     <<"<U+DB40>", "<U+DD76>">>, <<"<U+DB40>", "<U+DD77>">>, <<"<U+DB40>", "<U+DD78>">>,
     <<"<U+DB40>", "<U+DD79>">>, <<"<U+DB40>", "<U+DD7A>">>, <<"<U+DB40>", "<U+DD7B>">>,
     <<"<U+DB40>", "<U+DD7C>">>, <<"<U+DB40>", "<U+DD7D>">>, <<"<U+DB40>", "<U+DD7E>">>,
     <<"<U+DB40>", "<U+DD7F>">>, <<"<U+DB40>", "<U+DD80>">>, <<"<U+DB40>", "<U+DD81>">>,
     <<"<U+DB40>", "<U+DD82>">>, <<"<U+DB40>", "<U+DD83>">>, <<"<U+DB40>", "<U+DD84>">>,
     <<"<U+DB40>", "<U+DD85>">>, <<"<U+DB40>", "<U+DD86>">>, <<"<U+DB40>", "<U+DD87>">>,
     <<"<U+DB40>", "<U+DD88>">>, <<"<U+DB40>", "<U+DD89>">>, <<"<U+DB40>", "<U+DD8A>">>,
     <<"<U+DB40>", "<U+DD8B>">>, <<"<U+DB40>", "<U+DD8C>">>, <<"<U+DB40>", "<U+DD8D>">>,
     <<"<U+DB40>", "<U+DD8E>">>, <<"<U+DB40>", "<U+DD8F>">>, <<"<U+DB40>", "<U+DD90>">>,
     <<"<U+DB40>", "<U+DD91>">>, <<"<U+DB40>", "<U+DD92>">>, <<"<U+DB40>", "<U+DD93>">>,
     <<"<U+DB40>", "<U+DD94>">>, <<"<U+DB40>", "<U+DD95>">>, <<"<U+DB40>", "<U+DD96>">>,
     <<"<U+DB40>", "<U+DD97>">>, <<"<U+DB40>", "<U+DD98>">>, <<"<U+DB40>", "<U+DD99>">>,
     <<"<U+DB40>", "<U+DD9A>">>, <<"<U+DB40>", "<U+DD9B>">>, <<"<U+DB40>", "<U+DD9C>">>,
     <<"<U+DB40>", "<U+DD9D>">>, <<"<U+DB40>", "<U+DD9E>">>, <<"<U+DB40>", "<U+DD9F>">>,
     <<"<U+DB40>", "<U+DDA0>">>, <<"<U+DB40>", "<U+DDA1>">>, <<"<U+DB40>", "<U+DDA2>">>,
     <<"<U+DB40>", "<U+DDA3>">>, <<"<U+DB40>", "<U+DDA4>">>, <<"<U+DB40>", "<U+DDA5>">>,
     <<"<U+DB40>", "<U+DDA6>">>, <<"<U+DB40>", "<U+DDA7>">>, <<"<U+DB40>", "<U+DDA8>">>,
     <<"<U+DB40>", "<U+DDA9>">>, <<"<U+DB40>", "<U+DDAA>">>, <<"<U+DB40>", "<U+DDAB>">>,
     <<"<U+DB40>", "<U+DDAC>">>, <<"<U+DB40>", "<U+DDAD>">>, <<"<U+DB40>", "<U+DDAE>">>,
     <<"<U+DB40>", "<U+DDAF>">>, <<"<U+DB40>", "<U+DDB0>">>, <<"<U+DB40>", "<U+DDB1>">>,
     <<"<U+DB40>", "<U+DDB2>">>, <<"<U+DB40>", "<U+DDB3>">>, <<"<U+DB40>", "<U+DDB4>">>,
     <<"<U+DB40>", "<U+DDB5>">>, <<"<U+DB40>", "<U+DDB6>">>, <<"<U+DB40>", "<U+DDB7>">>,
     <<"<U+DB40>", "<U+DDB8>">>, <<"<U+DB40>", "<U+DDB9>">>, <<"<U+DB40>", "<U+DDBA>">>,
     <<"<U+DB40>", "<U+DDBB>">>, <<"<U+DB40>", "<U+DDBC>">>, <<"<U+DB40>", "<U+DDBD>">>,
     <<"<U+DB40>", "<U+DDBE>">>, <<"<U+DB40>", "<U+DDBF>">>, <<"<U+DB40>", "<U+DDC0>">>,
     <<"<U+DB40>", "<U+DDC1>">>, <<"<U+DB40>", "<U+DDC2>">>, <<"<U+DB40>", "<U+DDC3>">>,
     <<"<U+DB40>", "<U+DDC4>">>, <<"<U+DB40>", "<U+DDC5>">>, <<"<U+DB40>", "<U+DDC6>">>,
     <<"<U+DB40>", "<U+DDC7>">>, <<"<U+DB40>", "<U+DDC8>">>, <<"<U+DB40>", "<U+DDC9>">>,
     <<"<U+DB40>", "<U+DDCA>">>, <<"<U+DB40>", "<U+DDCB>">>, <<"<U+DB40>", "<U+DDCC>">>,
     <<"<U+DB40>", "<U+DDCD>">>, <<"<U+DB40>", "<U+DDCE>">>, <<"<U+DB40>", "<U+DDCF>">>,
     <<"<U+DB40>", "<U+DDD0>">>, <<"<U+DB40>", "<U+DDD1>">>, <<"<U+DB40>", "<U+DDD2>">>,
     <<"<U+DB40>", "<U+DDD3>">>, <<"<U+DB40>", "<U+DDD4>">>, <<"<U+DB40>", "<U+DDD5>">>,
     <<"<U+DB40>", "<U+DDD6>">>, <<"<U+DB40>", "<U+DDD7>">>, <<"<U+DB40>", "<U+DDD8>">>,
     <<"<U+DB40>", "<U+DDD9>">>, <<"<U+DB40>", "<U+DDDA>">>, <<"<U+DB40>", "<U+DDDB>">>,
     <<"<U+DB40>", "<U+DDDC>">>, <<"<U+DB40>", "<U+DDDD>">>, <<"<U+DB40>", "<U+DDDE>">>,
     <<"<U+DB40>", "<U+DDDF>">>, <<"<U+DB40>", "<U+DDE0>">>, <<"<U+DB40>", "<U+DDE1>">>,
     <<"<U+DB40>", "<U+DDE2>">>, <<"<U+DB40>", "<U+DDE3>">>, <<"<U+DB40>", "<U+DDE4>">>,
     <<"<U+DB40>", "<U+DDE5>">>, <<"<U+DB40>", "<U+DDE6>">>, <<"<U+DB40>", "<U+DDE7>">>,
     <<"<U+DB40>", "<U+DDE8>">>, <<"<U+DB40>", "<U+DDE9>">>, <<"<U+DB40>", "<U+DDEA>">>,
     <<"<U+DB40>", "<U+DDEB>">>, <<"<U+DB40>", "<U+DDEC>">>, <<"<U+DB40>", "<U+DDED>">>,
     <<"<U+DB40>", "<U+DDEE>">>, <<"<U+DB40>", "<U+DDEF>">>}

\* the surrogate pairs that have a case property
CasePairs == DOMAIN UpperToLowerPairs \cup CasedPairs \cup CaseIgnorablePairs

\* the code points of s, each the sequence of its code units: one, or the two of a
\* surrogate pair (a pair without a case property stays two single units, which no
\* mapping touches)
RECURSIVE CodePoints(_)
CodePoints(s) ==
    IF Len(s) = 0 THEN <<>>
    ELSE IF Len(s) >= 2 /\ SubSeq(s, 1, 2) \in CasePairs
    THEN <<SubSeq(s, 1, 2)>> \o CodePoints(SubSeq(s, 3, Len(s)))
    ELSE <<SubSeq(s, 1, 1)>> \o CodePoints(Tail(s))

Cased(c) == IF Len(c) = 1 THEN c[1] \in CasedUnits ELSE c \in CasedPairs
CaseIgnorable(c) == IF Len(c) = 1 THEN c[1] \in CaseIgnorableUnits ELSE c \in CaseIgnorablePairs

\* the lower-case mapping of a code point
ToLowerChar(c) ==
    IF Len(c) = 1
    THEN IF c[1] \in DOMAIN UpperToLower THEN UpperToLower[c[1]] ELSE c
    ELSE IF c \in DOMAIN UpperToLowerPairs THEN UpperToLowerPairs[c] ELSE c

\* Final_Sigma at position i: going back over case-ignorable characters there is a cased
\* letter, and going forward over case-ignorable characters there is none
FinalSigma(points, i) ==
    /\ \E j \in 1..(i - 1) :
           /\ Cased(points[j])
           /\ \A k \in (j + 1)..(i - 1) : CaseIgnorable(points[k])
    /\ ~\E j \in (i + 1)..Len(points) :
           /\ Cased(points[j])
           /\ \A k \in (i + 1)..(j - 1) : CaseIgnorable(points[k])

RECURSIVE Flatten(_)
Flatten(parts) == IF Len(parts) = 0 THEN <<>> ELSE Head(parts) \o Flatten(Tail(parts))

\* s.toLowerCase(): every code point gives its lower-case mapping, but a capital sigma
\* in the Final_Sigma context gives the final small sigma
ToLowerCase(s) ==
    LET points == CodePoints(s) IN
    Flatten([i \in 1..Len(points) |->
                IF points[i] = <<"Σ">> /\ FinalSigma(points, i) THEN <<"ς">>
                ELSE ToLowerChar(points[i])])

StartsWith(s, prefix) == Len(s) >= Len(prefix) /\ SubSeq(s, 1, Len(prefix)) = prefix

DataColon == <<"d", "a", "t", "a", ":">>

KeepDataUrlPrefix(s) == s

\* s.replace(/^data:(.*,)?/, ''): drops a leading "data:" and, greedily, everything up
\* to the last comma before the first line terminator
ReplaceDataUrlPrefix(s) ==
    IF ~StartsWith(s, DataColon) THEN s
    ELSE LET rest == SubSeq(s, Len(DataColon) + 1, Len(s))
             breaks == {i \in 1..Len(rest) : rest[i] \in LineTerminators}
             lineEnd == IF breaks = {} THEN Len(rest) ELSE Min(breaks) - 1
             commas == {i \in 1..lineEnd : rest[i] = ","}
         IN IF commas = {} THEN rest ELSE SubSeq(rest, Max(commas) + 1, Len(rest))

---------------------------------------------------------------------------
(* MIME type tables *)

ImageFormatMap ==
    (<<"i", "m", "a", "g", "e", "/", "p", "n", "g">>
        :> Str(<<"p", "n", "g">>))
    @@
    (<<"i", "m", "a", "g", "e", "/", "j", "p", "e", "g">>
        :> Str(<<"j", "p", "e", "g">>))
    @@
    (<<"i", "m", "a", "g", "e", "/", "j", "p", "g">>
        :> Str(<<"j", "p", "e", "g">>))
    @@
    (<<"i", "m", "a", "g", "e", "/", "g", "i", "f">>
        :> Str(<<"g", "i", "f">>))
    @@
    (<<"i", "m", "a", "g", "e", "/", "w", "e", "b", "p">>
        :> Str(<<"w", "e", "b", "p">>))

DocumentFormatMap ==
    (<<"a", "p", "p", "l", "i", "c", "a", "t", "i", "o", "n", "/", "p", "d", "f">>
        :> Str(<<"p", "d", "f">>))
    @@
    (<<"t", "e", "x", "t", "/", "c", "s", "v">>
        :> Str(<<"c", "s", "v">>))
    @@
    (<<"a", "p", "p", "l", "i", "c", "a", "t", "i", "o", "n", "/", "m", "s", "w", "o", "r", "d">>
        :> Str(<<"d", "o", "c">>))
    @@
    (<<"a", "p", "p", "l", "i", "c", "a", "t", "i", "o", "n", "/", "v", "n", "d", ".", "o", "p", "e", "n", "x", "m", "l", "f", "o", "r", "m", "a", "t", "s", "-", "o", "f", "f", "i", "c", "e", "d", "o", "c", "u", "m", "e", "n", "t", ".", "w", "o", "r", "d", "p", "r", "o", "c", "e", "s", "s", "i", "n", "g", "m", "l", ".", "d", "o", "c", "u", "m", "e", "n", "t">>
        :> Str(<<"d", "o", "c", "x">>))
    @@
    (<<"a", "p", "p", "l", "i", "c", "a", "t", "i", "o", "n", "/", "v", "n", "d", ".", "m", "s", "-", "e", "x", "c", "e", "l">>
        :> Str(<<"x", "l", "s">>))
    @@
    (<<"a", "p", "p", "l", "i", "c", "a", "t", "i", "o", "n", "/", "v", "n", "d", ".", "o", "p", "e", "n", "x", "m", "l", "f", "o", "r", "m", "a", "t", "s", "-", "o", "f", "f", "i", "c", "e", "d", "o", "c", "u", "m", "e", "n", "t", ".", "s", "p", "r", "e", "a", "d", "s", "h", "e", "e", "t", "m", "l", ".", "s", "h", "e", "e", "t">>
        :> Str(<<"x", "l", "s", "x">>))
    @@
    (<<"t", "e", "x", "t", "/", "h", "t", "m", "l">>
        :> Str(<<"h", "t", "m", "l">>))
    @@
    (<<"t", "e", "x", "t", "/", "p", "l", "a", "i", "n">>
        :> Str(<<"t", "x", "t">>))
    @@
    (<<"t", "e", "x", "t", "/", "m", "a", "r", "k", "d", "o", "w", "n">>
        :> Str(<<"m", "d">>))

VideoFormatMap ==
    (<<"v", "i", "d", "e", "o", "/", "x", "-", "f", "l", "v">>
        :> Str(<<"f", "l", "v">>))
    @@
    (<<"v", "i", "d", "e", "o", "/", "x", "-", "m", "a", "t", "r", "o", "s", "k", "a">>
        :> Str(<<"m", "k", "v">>))
    @@
    (<<"v", "i", "d", "e", "o", "/", "q", "u", "i", "c", "k", "t", "i", "m", "e">>
        :> Str(<<"m", "o", "v">>))
    @@
    (<<"v", "i", "d", "e", "o", "/", "m", "p", "e", "g">>
        :> Str(<<"m", "p", "e", "g">>))
    @@
    (<<"v", "i", "d", "e", "o", "/", "m", "p", "4">>
        :> Str(<<"m", "p", "4">>))
    @@
    (<<"v", "i", "d", "e", "o", "/", "3", "g", "p", "p">>
        :> Str(<<"t", "h", "r", "e", "e", "_", "g", "p">>))
    @@
    (<<"v", "i", "d", "e", "o", "/", "w", "e", "b", "m">>
        :> Str(<<"w", "e", "b", "m">>))
    @@
    (<<"v", "i", "d", "e", "o", "/", "x", "-", "m", "s", "-", "w", "m", "v">>
        :> Str(<<"w", "m", "v">>))

\* the keys every object literal inherits from Object.prototype
ObjectPrototypeKeys ==
    {<<"c", "o", "n", "s", "t", "r", "u", "c", "t", "o", "r">>,
     <<"_", "_", "p", "r", "o", "t", "o", "_", "_">>,
     <<"t", "o", "S", "t", "r", "i", "n", "g">>,
     <<"t", "o", "L", "o", "c", "a", "l", "e", "S", "t", "r", "i", "n", "g">>,
     <<"v", "a", "l", "u", "e", "O", "f">>,
     <<"h", "a", "s", "O", "w", "n", "P", "r", "o", "p", "e", "r", "t", "y">>,
     <<"i", "s", "P", "r", "o", "t", "o", "t", "y", "p", "e", "O", "f">>,
     <<"p", "r", "o", "p", "e", "r", "t", "y", "I", "s", "E", "n", "u", "m", "e", "r", "a", "b", "l", "e">>,
     <<"_", "_", "d", "e", "f", "i", "n", "e", "G", "e", "t", "t", "e", "r", "_", "_">>,
     <<"_", "_", "d", "e", "f", "i", "n", "e", "S", "e", "t", "t", "e", "r", "_", "_">>,
     <<"_", "_", "l", "o", "o", "k", "u", "p", "G", "e", "t", "t", "e", "r", "_", "_">>,
     <<"_", "_", "l", "o", "o", "k", "u", "p", "S", "e", "t", "t", "e", "r", "_", "_">>}

\* a built-in function, by its name
Function(name) == [t |-> "function", v |-> name]

\* what reading an inherited key of an object literal gives: __proto__ is the prototype
\* (an object with no enumerable key), constructor is the function Object, every other
\* key is the method of that name
Inherited(key) ==
    IF key = <<"_", "_", "p", "r", "o", "t", "o", "_", "_">> THEN EmptyObj
    ELSE IF key = <<"c", "o", "n", "s", "t", "r", "u", "c", "t", "o", "r">> THEN Function(<<"O", "b", "j", "e", "c", "t">>)
    ELSE Function(key)

\* formatMap[key], base64Cache[key]: the object's own entry, else the inherited one
Lookup(formatMap, key) ==
    IF key \in DOMAIN formatMap THEN formatMap[key]
    ELSE IF key \in ObjectPrototypeKeys THEN Inherited(key)
    ELSE Undefined

getImageFormatFromMimeType(mimeType) == Lookup(ImageFormatMap, ToLowerCase(mimeType.v))

getDocumentFormatFromMimeType(mimeType) == Lookup(DocumentFormatMap, ToLowerCase(mimeType.v))

getVideoFormatFromMimeType(mimeType) == Lookup(VideoFormatMap, ToLowerCase(mimeType.v))

---------------------------------------------------------------------------
(* convertExtraDataToStrandsContentBlock *)

\* a ?? b: b is evaluated when a is undefined or null; a TypeError thrown by the side
\* that is evaluated is the outcome
Nullish(a, b) == IF CanRead(a) THEN a ELSE b

\* v?.replace(/^data:(.*,)?/, ''): undefined for undefined and null, a TypeError for a
\* value that has no replace method
OptReplace(v) ==
    IF ~CanRead(v) THEN Undefined
    ELSE IF v.t = "string" THEN Str(ReplaceDataUrlPrefix(v.v))
    ELSE TypeError

\* uploadedFiles.find((uploadedFile) => uploadedFile.s3Url === s3Url)
Find(files, s3Url) ==
    LET hits == {i \in 1..Len(files) : Get(files[i], "s3Url") = s3Url} IN
    IF hits = {} THEN Undefined ELSE files[Min(hits)]

\* uploadedFiles?.find(...)?.base64EncodedData?.replace(...)
FromUploadedFiles(s3Url, files) ==
    IF ~CanRead(files) THEN Undefined
    ELSE LET found == Find(files.v, s3Url) IN
         IF ~CanRead(found) THEN Undefined
         ELSE OptReplace(Get(found, "base64EncodedData"))

\* base64Cache?.[s3Url]?.replace(...)
FromBase64Cache(s3Url, cache) ==
    IF ~CanRead(cache) THEN Undefined ELSE OptReplace(Lookup(cache.v, s3Url.v))

\* the bytes of an s3 source: the uploaded files first, then the cache
ResolveS3(s3Url, files, cache) ==
    Nullish(FromUploadedFiles(s3Url, files), FromBase64Cache(s3Url, cache))

\* let base64Data, as the two branches on data.source.type leave it
Base64DataOf(data, files, cache) ==
    LET source == Get(data, "source") IN
    IF Get(source, "type") = Str(<<"b", "a", "s", "e", "6", "4">>) THEN Get(source, "data")
    ELSE IF Get(source, "type") = Str(<<"s", "3">>) THEN ResolveS3(Get(source, "data"), files, cache)
    ELSE Undefined

ImageBlock(format, bytes) ==
    Obj([image |-> Obj([format |-> format, source |-> Obj([bytes |-> bytes])])])
DocumentBlock(format, name, bytes) ==
    Obj([document |-> Obj([format |-> format, name |-> name,
                           source |-> Obj([bytes |-> bytes])])])
VideoBlock(format, bytes) ==
    Obj([video |-> Obj([format |-> format, source |-> Obj([bytes |-> bytes])])])

convertExtraDataToStrandsContentBlock(data, files, cache) ==
    LET base64Data == Base64DataOf(data, files, cache)
        mediaType == Get(Get(data, "source"), "mediaType")
    IN
    IF base64Data = TypeError THEN TypeError
    ELSE IF ~Truthy(base64Data) THEN Null
    ELSE IF Get(data, "type") = Str(<<"i", "m", "a", "g", "e">>)
    THEN ImageBlock(getImageFormatFromMimeType(mediaType), base64Data)
    ELSE IF Get(data, "type") = Str(<<"f", "i", "l", "e">>)
    THEN DocumentBlock(getDocumentFormatFromMimeType(mediaType), Get(data, "name"), base64Data)
    ELSE IF Get(data, "type") = Str(<<"v", "i", "d", "e", "o">>)
    THEN VideoBlock(getVideoFormatFromMimeType(mediaType), base64Data)
    ELSE Null

---------------------------------------------------------------------------
(* convertToStrandsFormat *)

RECURSIVE PushExtraDataReversed(_, _, _, _)
PushExtraDataReversed(contentBlocks, extraData, files, cache) ==
    IF Len(extraData) = 0 THEN Arr(contentBlocks)
    ELSE LET contentBlock ==
                 convertExtraDataToStrandsContentBlock(extraData[Len(extraData)], files, cache)
         IN IF contentBlock = TypeError THEN TypeError
            ELSE PushExtraDataReversed(
                     IF Truthy(contentBlock) THEN Append(contentBlocks, contentBlock)
                     ELSE contentBlocks,
                     SubSeq(extraData, 1, Len(extraData) - 1), files, cache)

\* for (const data of message.extraData): push the block of each that has one; the
\* array after the loop, or the TypeError that the conversion of an attachment threw
RECURSIVE PushExtraData(_, _, _, _)
PushExtraData(contentBlocks, extraData, files, cache) ==
    IF Len(extraData) = 0 THEN Arr(contentBlocks)
    ELSE LET contentBlock ==
                 convertExtraDataToStrandsContentBlock(Head(extraData), files, cache)
         IN IF contentBlock = TypeError THEN TypeError
            ELSE PushExtraData(
                     IF Truthy(contentBlock) THEN Append(contentBlocks, contentBlock)
                     ELSE contentBlocks,
                     Tail(extraData), files, cache)

EnsureNothing(contentBlocks, message) == contentBlocks

\* if (contentBlocks.length === 0) push { text: message.content || '' }
EnsureContentBlock(contentBlocks, message) ==
    IF Len(contentBlocks) = 0
    THEN <<Obj([text |-> Or(Get(message, "content"), EmptyStr)])>>
    ELSE contentBlocks

\* the callback of messages.map
ConvertMessage(message, files, cache) ==
    LET content == Get(message, "content")
        extraData == Get(message, "extraData")
        withText == IF Truthy(content) /\ Truthy(Str(Trim(content.v)))
                    THEN <<Obj([text |-> content])>>
                    ELSE <<>>
        withData == IF Truthy(extraData)
                    THEN PushExtraData(withText, extraData.v, files, cache)
                    ELSE Arr(withText)
    IN IF withData = TypeError THEN TypeError
       ELSE Obj([role |-> Get(message, "role"),
                 content |-> Arr(EnsureContentBlock(withData.v, message))])

\* messages.map(...): the array of the converted messages, or the TypeError that the
\* callback threw
convertToStrandsFormat(msgs, files, cache) ==
    LET converted == [i \in 1..Len(msgs.v) |-> ConvertMessage(msgs.v[i], files, cache)] IN
    IF \E i \in 1..Len(msgs.v) : converted[i] = TypeError THEN TypeError
    ELSE Arr(converted)

---------------------------------------------------------------------------
(* Inputs of the conversion *)

\* most messages, attachments per message and uploaded-file records of an input
MaxMessages == 2
MaxExtraData == 2
MaxUploadedFiles == 2

SeqUpTo(S, n) == UNION {[1..k -> S] : k \in 0..n}

ExtraData(type, name, sourceType, mediaType, data) ==
    Obj([type |-> Str(type), name |-> Str(name),
         source |-> Obj([type |-> Str(sourceType), mediaType |-> Str(mediaType),
                         data |-> Str(data)])])

Message(role, content, extraData) ==
    CASE content = Undefined /\ extraData = Undefined -> Obj([role |-> Str(role)])
      [] content = Undefined /\ extraData # Undefined ->
            Obj([role |-> Str(role), extraData |-> extraData])
      [] content # Undefined /\ extraData = Undefined ->
            Obj([role |-> Str(role), content |-> content])
      [] OTHER -> Obj([role |-> Str(role), content |-> content, extraData |-> extraData])

UploadedFile(s3Url, payload) ==
    IF payload = Undefined THEN Obj([s3Url |-> Str(s3Url)])
    ELSE Obj([s3Url |-> Str(s3Url), base64EncodedData |-> payload])

Roles == {<<"u", "s", "e", "r">>, <<"a", "s", "s", "i", "s", "t", "a", "n", "t">>}
Contents ==
    {Undefined, Str(<<>>), Str(<<" ">>), Str(<<"\n", " ">>), Str(<<VerticalTab>>), Str(<<"a">>), Str(<<" ", "a", " ">>),
     Str(<<VerticalTab, "a", VerticalTab>>)}
Locators == {<<"s", "3", ":", "/", "/", "a">>, <<"s", "3", ":", "/", "/", "b">>}
InlineData == {<<>>, <<"Q", "U", "J", "D">>, <<"d", "a", "t", "a", ":", "i", "m", "a", "g", "e", "/", "p", "n", "g", ";", "b", "a", "s", "e", "6", "4", ",", "Q", "U", "J", "D">>}
FilePayloads ==
    {Undefined, Str(<<>>), Str(<<"Q", "U", "J", "D">>), Str(<<"d", "a", "t", "a", ":", "i", "m", "a", "g", "e", "/", "g", "i", "f", ";", "b", "a", "s", "e", "6", "4", ",", "R", "0", "l", "G">>),
     Str(<<"d", "a", "t", "a", ":", "i", "m", "a", "g", "e", "/", "p", "n", "g", ";", "b", "a", "s", "e", "6", "4", ",">>)}
CachePayloads ==
    {Str(<<>>), Str(<<"R", "U", "Z", "H">>), Str(<<"d", "a", "t", "a", ":", "i", "m", "a", "g", "e", "/", "p", "n", "g", ";", "b", "a", "s", "e", "6", "4", ",", "Q", "U", "J", "D">>), Str(<<"d", "a", "t", "a", ":", "Q", "U", "J", "D">>),
     Str(<<"d", "a", "t", "a", ":", "a", ",", "Q", "\n", "U", ",", "J">>)}
Kinds == {<<"i", "m", "a", "g", "e">>, <<"f", "i", "l", "e">>, <<"v", "i", "d", "e", "o">>, <<"a", "u", "d", "i", "o">>}
MediaTypes ==
    {<<"i", "m", "a", "g", "e", "/", "p", "n", "g">>, <<"I", "M", "A", "G", "E", "/", "P", "N", "G">>, <<"I", "m", "a", "g", "e", "/", "J", "p", "g">>, <<"i", "m", "a", "g", "e", "/", "b", "m", "p">>, <<"a", "p", "p", "l", "i", "c", "a", "t", "i", "o", "n", "/", "p", "d", "f">>,
     <<"T", "e", "x", "t", "/", "P", "l", "a", "i", "n">>, <<"v", "i", "d", "e", "o", "/", "m", "p", "4">>, <<"V", "I", "D", "E", "O", "/", "3", "G", "P", "P">>, <<"v", "i", "d", "e", "o", "/", "a", "v", "i">>,
     <<"c", "o", "n", "s", "t", "r", "u", "c", "t", "o", "r">>,
     <<"C", "O", "N", "S", "T", "R", "U", "C", "T", "O", "R">>,
     <<"_", "_", "p", "r", "o", "t", "o", "_", "_">>,
     <<"t", "e", "x", "t", "/", "m", "a", "r", "<U+212A>", "d", "o", "w", "n">>,
     <<"<U+0130>", "M", "A", "G", "E", "/", "P", "N", "G">>,
     <<"I", "M", "A", "G", "É", "/", "P", "N", "G">>}

UploadedFileLists ==
    {Undefined}
        \cup {Arr(s) : s \in SeqUpTo({UploadedFile(l, p) : l \in Locators, p \in FilePayloads},
                                     MaxUploadedFiles)}
Base64Caches ==
    {Undefined} \cup {Obj(f) : f \in UNION {[D -> CachePayloads] : D \in SUBSET Locators}}

\* locators that are keys every object inherits, and one that is not
InheritedLocators ==
    {<<"c", "o", "n", "s", "t", "r", "u", "c", "t", "o", "r">>, <<"_", "_", "p", "r", "o", "t", "o", "_", "_">>,
     <<"v", "a", "l", "u", "e", "O", "f">>, <<"s", "3", ":", "/", "/", "a">>}
InheritedUploadedFileLists ==
    {Undefined,
     Arr(<<UploadedFile(<<"c", "o", "n", "s", "t", "r", "u", "c", "t", "o", "r">>, Undefined)>>),
     Arr(<<UploadedFile(<<"c", "o", "n", "s", "t", "r", "u", "c", "t", "o", "r">>, Str(<<"Q", "U", "J", "D">>))>>)}
InheritedCaches ==
    {Undefined, EmptyObj,
     Obj(<<"s", "3", ":", "/", "/", "a">> :> Str(<<"R", "U", "Z", "H">>)),
     Obj(<<"c", "o", "n", "s", "t", "r", "u", "c", "t", "o", "r">> :> Str(<<"R", "U", "Z", "H">>))}

\* a second attachment after the first, to see what the loop does after a failure
TwoS3Input(locator, files, cache) ==
    [messages |->
         Arr(<<Message(<<"u", "s", "e", "r">>, Str(<<"a">>),
                       Arr(<<ExtraData(<<"i", "m", "a", "g", "e">>, <<"p">>, <<"s", "3">>, <<"i", "m", "a", "g", "e", "/", "p", "n", "g">>, locator),
                             ExtraData(<<"i", "m", "a", "g", "e">>, <<"i">>, <<"b", "a", "s", "e", "6", "4">>, <<"i", "m", "a", "g", "e", "/", "p", "n", "g">>, <<"Q", "U", "J", "D">>)>>))>>),
     uploadedFiles |-> files, base64Cache |-> cache]

Input(msgs, files, cache) == [messages |-> msgs, uploadedFiles |-> files, base64Cache |-> cache]

OneMessage(content, data) == Arr(<<Message(<<"u", "s", "e", "r">>, content, Arr(<<data>>))>>)

\* one attachment with an s3 source, under a resolution context
S3Input(locator, files, cache) ==
    Input(OneMessage(Str(<<"a">>), ExtraData(<<"i", "m", "a", "g", "e">>, <<"p">>, <<"s", "3">>, <<"i", "m", "a", "g", "e", "/", "p", "n", "g">>, locator)),
          files, cache)

\* one attachment with inline data, of some kind and MIME type
InlineInput(kind, mediaType, data) ==
    Input(OneMessage(Undefined, ExtraData(kind, <<"d", " ", "1", ".", "x">>, <<"b", "a", "s", "e", "6", "4">>, mediaType, data)),
          Undefined, Undefined)

ListedAttachments ==
    {ExtraData(<<"i", "m", "a", "g", "e">>, <<"i">>, <<"b", "a", "s", "e", "6", "4">>, <<"i", "m", "a", "g", "e", "/", "p", "n", "g">>, <<"Q", "U", "J", "D">>),
     ExtraData(<<"i", "m", "a", "g", "e">>, <<"e">>, <<"b", "a", "s", "e", "6", "4">>, <<"i", "m", "a", "g", "e", "/", "p", "n", "g">>, <<>>),
     ExtraData(<<"f", "i", "l", "e">>, <<"f">>, <<"b", "a", "s", "e", "6", "4">>, <<"a", "p", "p", "l", "i", "c", "a", "t", "i", "o", "n", "/", "p", "d", "f">>, <<"R", "U", "Z", "H">>),
     ExtraData(<<"v", "i", "d", "e", "o">>, <<"v">>, <<"s", "3">>, <<"v", "i", "d", "e", "o", "/", "m", "p", "4">>, <<"s", "3", ":", "/", "/", "a">>),
     ExtraData(<<"a", "u", "d", "i", "o">>, <<"o">>, <<"b", "a", "s", "e", "6", "4">>, <<"a", "u", "d", "i", "o", "/", "m", "p", "3">>, <<"Q", "U", "J", "D">>)}

ExtraDataLists ==
    {Undefined} \cup {Arr(s) : s \in SeqUpTo(ListedAttachments, MaxExtraData)}

ListedUploadedFiles ==
    {Undefined, Arr(<<UploadedFile(<<"s", "3", ":", "/", "/", "a">>, Str(<<"d", "a", "t", "a", ":", "v", "i", "d", "e", "o", "/", "m", "p", "4", ";", "b", "a", "s", "e", "6", "4", ",", "A", "A", "A", "A">>))>>)}

\* one message with some content and some list of attachments
ListInput(content, extraData, files) ==
    Input(Arr(<<Message(<<"u", "s", "e", "r">>, content, extraData)>>), files, Undefined)

ListedMessages ==
    {Message(r, c, e) :
        r \in Roles,
        c \in {Undefined, Str(<<" ">>), Str(<<"a">>)},
        e \in {Undefined,
               Arr(<<ExtraData(<<"i", "m", "a", "g", "e">>, <<"i">>, <<"b", "a", "s", "e", "6", "4">>, <<"i", "m", "a", "g", "e", "/", "p", "n", "g">>, <<"Q", "U", "J", "D">>)>>)}}

MessageLists == SeqUpTo(ListedMessages, MaxMessages)

\* a list of messages
MessageInput(list) == Input(Arr(list), Undefined, Undefined)

---------------------------------------------------------------------------
(* The conversion as a state machine: the inputs, then the call *)

\* the processor while a conversion runs
ProcIdle ==
    /\ currentContentBlockType = NewProcessor.currentContentBlockType
    /\ toolUseBuffer = NewProcessor.toolUseBuffer
    /\ call = NoCall
    /\ roundTrip = NoRoundTrip
    /\ fresh = NoFresh
    /\ history = NoHistory

\* the arguments of the call are the input in
Given(in) ==
    /\ messages = in.messages
    /\ uploadedFiles = in.uploadedFiles
    /\ base64Cache = in.base64Cache

ConvInit ==
    /\ ProcIdle
    /\ FilesIdle
    /\ pc = "input"
    /\ strandsMessages = Undefined
    /\ \/ \E l \in Locators, f \in UploadedFileLists, c \in Base64Caches :
              Given(S3Input(l, f, c))
       \/ \E k \in Kinds, m \in MediaTypes, d \in InlineData : Given(InlineInput(k, m, d))
       \/ \E c \in Contents, e \in ExtraDataLists, f \in ListedUploadedFiles :
              Given(ListInput(c, e, f))
       \/ \E list \in MessageLists : Given(MessageInput(list))
       \/ \E l \in InheritedLocators, f \in InheritedUploadedFileLists, c \in InheritedCaches :
              Given(S3Input(l, f, c)) \/ Given(TwoS3Input(l, f, c))

\* convertToStrandsFormat(messages, uploadedFiles, base64Cache)
Convert ==
    /\ pc = "input"
    /\ \E result \in {convertToStrandsFormat(messages, uploadedFiles, base64Cache)} :
           IF result = TypeError
           THEN pc' = "threw" /\ UNCHANGED strandsMessages
           ELSE pc' = "done" /\ strandsMessages' = result
    /\ UNCHANGED <<messages, uploadedFiles, base64Cache>>
    /\ UNCHANGED procVars
    /\ UNCHANGED fileVars

ConvNext == Convert

ConvSpec == ConvInit /\ [][ConvNext]_vars

---------------------------------------------------------------------------
(* convertFilesToStrandsContentBlocks, fileToBase64, convertFileToStrandsContentBlock *)

\* a File as the code reads it (file.name, file.type) together with what the FileReader
\* does when asked to read it: it fires load with reader.result, or it fires error
File(name, type, reader) == [name |-> name, type |-> type, reader |-> reader]
Load(result) == [event |-> "load", result |-> Str(result)]
ReadError == [event |-> "error"]

\* result.split(',')[1]: what lies between the first comma and the next one, undefined
\* when there is no comma
SplitComma1(result) ==
    LET commas == {i \in 1..Len(result) : result[i] = ","} IN
    IF commas = {} THEN Undefined
    ELSE LET first == Min(commas)
             rest == {i \in commas : i > first}
             last == IF rest = {} THEN Len(result) ELSE Min(rest) - 1
         IN Str(SubSeq(result, first + 1, last))

\* the promise of fileToBase64(file) once the reader has fired its event
fileToBase64(file) ==
    IF file.reader.event = "load"
    THEN [settled |-> "resolved", value |-> SplitComma1(file.reader.result.v)]
    ELSE [settled |-> "rejected", value |-> Undefined]

\* the characters of the class [a-zA-Z0-9\s\-()[\]]
NameChars ==
    {"a", "b", "c", "d", "e", "f", "g", "h", "i", "j", "k", "l", "m", "n", "o", "p", "q", "r",
     "s", "t", "u", "v", "w", "x", "y", "z",
     "A", "B", "C", "D", "E", "F", "G", "H", "I", "J", "K", "L", "M", "N", "O", "P", "Q", "R",
     "S", "T", "U", "V", "W", "X", "Y", "Z"}
    \cup {"0", "1", "2", "3", "4", "5", "6", "7", "8", "9"}
    \cup WhiteSpace \cup {"-", "(", ")", "[", "]"}

\* name.replace(/[^a-zA-Z0-9\s\-()[\]]/g, 'X')
ReplaceNameChars(name) == [i \in 1..Len(name) |-> IF name[i] \in NameChars THEN name[i] ELSE "X"]

ImagePrefix == <<"i", "m", "a", "g", "e", "/">>
VideoPrefix == <<"v", "i", "d", "e", "o", "/">>

\* the promise of convertFileToStrandsContentBlock(file, base64): rejected when file.name
\* or file.type is not a string (TypeError on .replace, .startsWith)
convertFileToStrandsContentBlock(file, base64) ==
    IF file.name.t # "string" \/ file.type.t # "string"
    THEN [settled |-> "rejected", value |-> Undefined]
    ELSE LET mimeType == file.type
             fileName == Str(ReplaceNameChars(file.name.v))
         IN [settled |-> "resolved",
             value |-> IF StartsWith(mimeType.v, ImagePrefix)
                       THEN ImageBlock(getImageFormatFromMimeType(mimeType), base64)
                       ELSE IF StartsWith(mimeType.v, VideoPrefix)
                       THEN VideoBlock(getVideoFormatFromMimeType(mimeType), base64)
                       ELSE DocumentBlock(getDocumentFormatFromMimeType(mimeType),
                                          fileName, base64)]

PushContentBlockFront(blocks, contentBlock) == <<contentBlock>> \o blocks

\* contentBlocks.push(contentBlock)
PushContentBlock(blocks, contentBlock) == Append(blocks, contentBlock)
---------------------------------------------------------------------------
(* convertFilesToStrandsContentBlocks as a state machine: one action per step between
   two suspensions of the async function, and one per FileReader event *)

\* most files of an input list
MaxFiles == 2

\* the files of the model: an image, an image that cannot be read, a video, a document
\* whose name has characters to replace, a file without a name, an empty file whose data
\* URL has no comma, and an image whose type is in upper case
ModelFiles ==
    { File(Str(<<"a", ".", "p", "n", "g">>), Str(<<"i", "m", "a", "g", "e", "/", "p", "n", "g">>), Load(<<"d", "a", "t", "a", ":", "i", "m", "a", "g", "e", "/", "p", "n", "g", ";", "b", "a", "s", "e", "6", "4", ",", "Q", "U", "J", "D">>)),
      File(Str(<<"b", ".", "p", "n", "g">>), Str(<<"i", "m", "a", "g", "e", "/", "p", "n", "g">>), ReadError),
      File(Str(<<"c", ".", "m", "p", "4">>), Str(<<"v", "i", "d", "e", "o", "/", "m", "p", "4">>), Load(<<"d", "a", "t", "a", ":", "v", "i", "d", "e", "o", "/", "m", "p", "4", ";", "b", "a", "s", "e", "6", "4", ",", "A", "A", "A", "A">>)),
      File(Str(<<"r", "_", "1", " ", VerticalTab, "(", "2", ")", ".", "p", "d", "f">>), Str(<<"a", "p", "p", "l", "i", "c", "a", "t", "i", "o", "n", "/", "p", "d", "f">>),
           Load(<<"d", "a", "t", "a", ":", "a", "p", "p", "l", "i", "c", "a", "t", "i", "o", "n", "/", "p", "d", "f", ";", "b", "a", "s", "e", "6", "4", ",", "J", "V", "B", "E">>)),
      File(Undefined, Str(<<"i", "m", "a", "g", "e", "/", "g", "i", "f">>), Load(<<"d", "a", "t", "a", ":", "i", "m", "a", "g", "e", "/", "g", "i", "f", ";", "b", "a", "s", "e", "6", "4", ",", "R", "0", "l", "G">>)),
      File(Str(<<"e">>), Str(<<>>), Load(<<"d", "a", "t", "a", ":">>)),
      File(Str(<<"F", ".", "P", "N", "G">>), Str(<<"I", "M", "A", "G", "E", "/", "P", "N", "G">>), Load(<<"d", "a", "t", "a", ":", "I", "M", "A", "G", "E", "/", "P", "N", "G", ";", "b", "a", "s", "e", "6", "4", ",", "i", "V", "B", "O">>)) }

FileLists == SeqUpTo(ModelFiles, MaxFiles)

\* the file of the current iteration
CurrentFile == inputFiles[fileIndex]

\* the head of the for loop for the file at position i, with the blocks pushed so far:
\* fileToBase64 starts the reader and the function suspends, or the loop is over and
\* the function returns contentBlocks
StartIteration(i, blocks) ==
    /\ fileIndex' = i
    /\ fileContentBlocks' = blocks
    /\ fileBase64Data' = Undefined
    /\ filesPc' = IF i > Len(inputFiles) THEN "done" ELSE "reading"
    /\ UNCHANGED inputFiles

FilesInit ==
    /\ ProcIdle
    /\ ConvIdle
    /\ inputFiles \in FileLists
    /\ fileIndex = 0
    /\ fileBase64Data = Undefined
    /\ fileContentBlocks = Undefined
    /\ filesPc = "called"

\* convertFilesToStrandsContentBlocks(files) up to its first suspension
CallConvertFiles ==
    /\ filesPc = "called"
    /\ StartIteration(1, <<>>)
    /\ UNCHANGED <<procVars, convVars>>

\* reader.onload: resolve(result.split(',')[1])
OnLoad ==
    /\ filesPc = "reading"
    /\ fileToBase64(CurrentFile).settled = "resolved"
    /\ fileBase64Data' = fileToBase64(CurrentFile).value
    /\ filesPc' = "encoded"
    /\ UNCHANGED <<inputFiles, fileIndex, fileContentBlocks, procVars, convVars>>

\* reader.onerror: reject
OnError ==
    /\ filesPc = "reading"
    /\ fileToBase64(CurrentFile).settled = "rejected"
    /\ filesPc' = "unreadable"
    /\ UNCHANGED <<inputFiles, fileIndex, fileBase64Data, fileContentBlocks, procVars, convVars>>

\* the function resumes from await fileToBase64(file): with the value it calls
\* convertFileToStrandsContentBlock and suspends again; with the rejection it enters the
\* catch block and goes on to the next file
ResumeFromFileToBase64 ==
    \/ /\ filesPc = "encoded"
       /\ filesPc' = "converting"
       /\ UNCHANGED <<inputFiles, fileIndex, fileBase64Data, fileContentBlocks>>
       /\ UNCHANGED <<procVars, convVars>>
    \/ /\ filesPc = "unreadable"
       /\ StartIteration(fileIndex + 1, fileContentBlocks)
       /\ UNCHANGED <<procVars, convVars>>

\* the function resumes from await convertFileToStrandsContentBlock(file, base64Data):
\* it pushes the block, or enters the catch block, and goes on to the next file
ResumeFromConvertFile ==
    /\ filesPc = "converting"
    /\ \E r \in {convertFileToStrandsContentBlock(CurrentFile, fileBase64Data)} :
           StartIteration(fileIndex + 1,
                          IF r.settled = "resolved" /\ Truthy(r.value)
                          THEN PushContentBlock(fileContentBlocks, r.value)
                          ELSE fileContentBlocks)
    /\ UNCHANGED <<procVars, convVars>>

FilesNext ==
    \/ CallConvertFiles
    \/ OnLoad
    \/ OnError
    \/ ResumeFromFileToBase64
    \/ ResumeFromConvertFile

\* the FileReader fires load or error for every read it is asked for, and the event
\* loop runs every continuation that is ready
FilesSpec == FilesInit /\ [][FilesNext]_vars /\ WF_vars(FilesNext)
---------------------------------------------------------------------------
(* Claims about the stream processor, checked under Spec *)

FenceOpen(name) == Obj([text |-> EmptyStr, trace |-> Str(Backticks \o name \o NewLine)])
FenceClose == Obj([text |-> EmptyStr, trace |-> Str(NewLine \o Backticks \o NewLine)])
TraceOnly(t) == Obj([text |-> EmptyStr, trace |-> Str(t)])
TextOnly(t) == Obj([text |-> Str(t)])

\* C1: on a processor in state none, the frames content-block-start(tool-use, name X),
\* content-block-delta(tool-use, input I), content-block-stop produce exactly three
\* records with empty text whose traces are the opening fence with X, then I unchanged,
\* then the closing fence, and the block kind after the third frame is none; for every
\* tool name X and input I.
C1_ToolUseRoundTrip ==
    Len(roundTrip.frames) = 3 =>
        \E X \in ToolNames, I \in ToolInputs :
            /\ roundTrip.frames =
                   <<ToolUseStartFrame(X), ToolUseDeltaFrame(I), ContentBlockStopFrame>>
            /\ roundTrip.outs = <<FenceOpen(X), TraceOnly(I), FenceClose>>
            /\ currentContentBlockType = "null"

C1_Witness ==
    roundTrip.frames =
        <<ToolUseStartFrame(<<"g", "e", "t">>), ToolUseDeltaFrame(<<"{">>),
          ContentBlockStopFrame>>

\* the last call was a frame or reset() that ends a session
AtBoundary ==
    \/ call.op = "reset"
    \/ call.op = "processEvent" /\ call.eventText \in {MessageStartFrame, MessageStopFrame}

\* C2: after any sequence of calls, reset(), a message-start frame and a message-stop
\* frame each leave the block kind none and the tool buffer empty (the two frames return
\* null, and reset() on the state reset() left changes nothing); from then on the
\* processor's states and outputs are those of a newly constructed processor fed the
\* same frames.
C2_ResetGivesFreshProcessor ==
    /\ AtBoundary => Self = NewProcessor
    /\ (AtBoundary /\ call.op = "processEvent") => (call.ret = Null /\ ~call.threw)
    /\ call.op = "reset" => reset(Self) = Self
    /\ fresh.active => Self = fresh.self
    /\ (fresh.active /\ call.op = "processEvent") => call.ret = fresh.ret

C2_Witness ==
    /\ fresh.active
    /\ fresh.dirty
    /\ call.op = "processEvent"
    /\ call.eventText = ToolUseDeltaFrame(<<"}">>)
    /\ toolUseBuffer = <<"{", "}">>

\* C3: processEvent never throws and returns a record or null; for a frame that cannot
\* be deserialized, or whose structure makes a handler fail, it returns null and leaves
\* the block kind and the tool buffer as they were before the call.
C3_NeverThrows ==
    call.op = "processEvent" =>
        /\ ~call.threw
        /\ call.ret = Null \/ call.ret.t = "object"
        /\ call.eventText \in BadFrames => (call.ret = Null /\ Self = call.before)

\* the frame that refutes it: a tool-use start whose name has no string conversion makes
\* the handler throw after it assigned the kind and emptied the buffer; the call returns
\* null and the processor is left in a tool-use block with an empty buffer
C3_Witness ==
    /\ call.op = "processEvent"
    /\ call.eventText = UnprintableNameFrame
    /\ call.before = Processor("text", <<"{">>)
    /\ call.ret = Null
    /\ Self = Processor("toolUse", <<>>)

\* C4 as stated: in every state, a frame with one of the five error variants yields
\* {text: "Error: " + message} when the variant has a message and
\* {text: "Error: An error occurred"} when it has none.
C4_Original ==
    call.op = "processEvent" =>
        \A v \in ErrorVariants :
            /\ \A m \in ErrorMessages :
                   call.eventText = ErrorFrame(v, m) =>
                       call.ret = TextOnly(ErrorPrefix \o m)
            /\ call.eventText = ErrorFrameNoMessage(v) =>
                   call.ret = TextOnly(ErrorPrefix \o AnErrorOccurred)

\* C4, amended: in every state, a frame with one of the five error variants yields
\* exactly {text: "Error: " + message} when the variant has a non-empty message, and
\* {text: "Error: An error occurred"} when it has no message or an empty one; no trace,
\* no metadata, never null.
C4_ErrorFrameSurfaced ==
    call.op = "processEvent" =>
        \A v \in ErrorVariants :
            /\ \A m \in ErrorMessages :
                   call.eventText = ErrorFrame(v, m) =>
                       call.ret = TextOnly(ErrorPrefix
                                           \o (IF m = <<>> THEN AnErrorOccurred ELSE m))
            /\ call.eventText = ErrorFrameNoMessage(v) =>
                   call.ret = TextOnly(ErrorPrefix \o AnErrorOccurred)

C4_Witness ==
    /\ call.op = "processEvent"
    /\ \E m \in ErrorMessages :
           m # <<>> /\ call.eventText = ErrorFrame("throttlingException", m)
                    /\ call.ret = TextOnly(ErrorPrefix \o m)
    /\ call.before.currentContentBlockType = "toolUse"

\* C5: in every state, a metadata frame yields a record with empty text whose
\* metadata.usage has inputTokens, outputTokens and totalTokens equal to the frame's, and
\* in which cacheReadInputTokens and cacheWriteInputTokens hold the supplied value when
\* the frame supplied one and are undefined (not present) when it did not.
C5_MetadataUsage ==
    call.op = "processEvent" =>
        \A u \in Usages :
            call.eventText = MetadataFrame(u) =>
                /\ call.ret.t = "object"
                /\ DOMAIN call.ret.v = {"text", "metadata"}
                /\ call.ret.v.text = EmptyStr
                /\ DOMAIN call.ret.v.metadata.v = {"usage"}
                /\ LET out == call.ret.v.metadata.v.usage IN
                   /\ \A k \in {"inputTokens", "outputTokens", "totalTokens"} :
                          Get(out, k) = Get(u, k) /\ Get(out, k).t = "number"
                   /\ \A k \in {"cacheReadInputTokens", "cacheWriteInputTokens"} :
                          /\ In(k, u) => Get(out, k) = Get(u, k)
                          /\ ~In(k, u) => Get(out, k) = Undefined

C5_Witness ==
    /\ call.op = "processEvent"
    /\ call.eventText = MetadataFrame(Usage(10, 5, TRUE, FALSE))
    /\ Get(call.ret.v.metadata.v.usage, "cacheReadInputTokens") = Num(0)
    /\ Get(call.ret.v.metadata.v.usage, "cacheWriteInputTokens") = Undefined
    /\ call.before.currentContentBlockType = "text"


---------------------------------------------------------------------------
(* Claims about the effect of single frames on the processor, checked under Spec *)

\* the last call was processEvent on the frame eventText
Processed(eventText) == call.op = "processEvent" /\ call.eventText = eventText

\* C12 as stated: in every state, a text start frame and a text delta frame each set the
\* kind to text and yield {text: t}, for every t the frame carries; a reasoning delta
\* frame with text r sets the kind to reasoning and yields {text: "", trace: r}.
C12_Original ==
    /\ \A t \in Texts :
           Processed(TextStartFrame(t)) \/ Processed(TextDeltaFrame(t)) =>
               currentContentBlockType = "text" /\ call.ret = TextOnly(t)
    /\ \A r \in ReasoningTexts :
           Processed(ReasoningDeltaFrame(r)) =>
               currentContentBlockType = "reasoning" /\ call.ret = TraceOnly(r)

\* C12, amended: in every state, a text start frame and a text delta frame whose text t
\* is not empty each set the kind to text and yield {text: t}, and a reasoning delta
\* frame whose text r is not empty sets the kind to reasoning and yields
\* {text: "", trace: r}; none of them touches the tool buffer.  When the text the frame
\* carries is the empty string, the frame yields no output and leaves the kind and the
\* buffer as they were.
C12_TextAndReasoningFrames ==
    /\ \A t \in Texts :
           Processed(TextStartFrame(t)) \/ Processed(TextDeltaFrame(t)) =>
               IF t # <<>>
               THEN /\ Self = Processor("text", call.before.toolUseBuffer)
                    /\ call.ret = TextOnly(t)
               ELSE Self = call.before /\ call.ret = Null
    /\ \A r \in ReasoningTexts :
           Processed(ReasoningDeltaFrame(r)) =>
               IF r # <<>>
               THEN /\ Self = Processor("reasoning", call.before.toolUseBuffer)
                    /\ call.ret = TraceOnly(r)
               ELSE Self = call.before /\ call.ret = Null

C12_Witness ==
    /\ Processed(TextDeltaFrame(<<"H", "i">>))
    /\ call.before = Processor("toolUse", <<"{">>)
    /\ Self = Processor("text", <<"{">>)
    /\ call.ret = TextOnly(<<"H", "i">>)

\* C13: a content-block-stop frame always leaves the kind none (and the tool buffer as
\* it was), and what it yields depends only on the kind before it: {text: newline} for
\* text, {text: "", trace: closing fence} for tool-use, nothing for none and for
\* reasoning; so a content-block-stop that directly follows another yields nothing.
C13_StopClosesBlock ==
    Processed(ContentBlockStopFrame) =>
        /\ Self = Processor("null", call.before.toolUseBuffer)
        /\ call.ret = CASE call.before.currentContentBlockType = "text" -> TextOnly(NewLine)
                        [] call.before.currentContentBlockType = "toolUse" -> FenceClose
                        [] call.before.currentContentBlockType = "null" -> Null
                        [] call.before.currentContentBlockType = "reasoning" -> Null
        /\ history.stops >= 2 => call.ret = Null

C13_Witness ==
    /\ Processed(ContentBlockStopFrame)
    /\ history.stops = 2
    /\ call.ret = Null
    /\ Self = Processor("null", <<"{">>)

\* what the frames do to the tool buffer, one frame at a time: a tool-use start frame
\* empties it, a tool-use delta frame appends its input and yields that input as trace,
\* and what a call returns does not depend on the buffer's content
BufferFrameEffects ==
    /\ \A n \in ToolNames :
           Processed(ToolUseStartFrame(n)) => Self = Processor("toolUse", <<>>)
    /\ \A i \in ToolInputs :
           Processed(ToolUseDeltaFrame(i)) =>
               /\ Self = Processor("toolUse", call.before.toolUseBuffer \o i)
               /\ call.ret = TraceOnly(i)
    /\ call.op = "processEvent" =>
           call.ret = processEvent(Processor(call.before.currentContentBlockType, <<>>),
                                   call.eventText).ret

\* C14 as stated: a tool-use start frame empties the buffer, a tool-use delta frame
\* appends its input and emits it as trace, the buffer is in no returned record; so
\* whenever the kind is tool-use the buffer is the concatenation of the inputs of the
\* tool-use delta frames received for the open block, with no input of an earlier block.
C14_Original ==
    /\ BufferFrameEffects
    /\ currentContentBlockType = "toolUse" => toolUseBuffer = history.sinceOpen

\* C14, amended: the frame effects as stated; the buffer is emptied only by a tool-use
\* start frame, a message-start or message-stop frame and reset(), not by
\* content-block-stop, so at every point it is the concatenation, in arrival order, of
\* the inputs of the tool-use delta frames received since the last of those; it holds
\* the input of the open block alone when that block was begun by a tool-use start frame.
C14_BufferSinceLastClear ==
    /\ BufferFrameEffects
    /\ toolUseBuffer = history.sinceClear
    /\ currentContentBlockType = "toolUse" /\ history.opened =>
           toolUseBuffer = history.sinceOpen

C14_Witness ==
    /\ Processed(ToolUseDeltaFrame(<<"}">>))
    /\ call.before = Processor("toolUse", <<"{">>)
    /\ history.opened
    /\ toolUseBuffer = <<"{", "}">>
    /\ history.sinceOpen = <<"{", "}">>

\* what a content-block-stop frame yields for a block of the kind given
Closer(kind) ==
    CASE kind = "text" -> TextOnly(NewLine)
      [] kind = "toolUse" -> FenceClose
      [] OTHER -> Null

\* a passive frame leaves the kind and the buffer as they were, however many of them
\* arrive in a row, and the content-block-stop that follows one closes the block that
\* was open before them
PassiveFramesKeepState ==
    /\ \A f \in PassiveFrames : Processed(f) => Self = call.before
    /\ call.op = "processEvent" => history.held = Self
    /\ Processed(ContentBlockStopFrame) /\ history.afterPassive =>
           /\ call.ret = Closer(history.heldBefore.currentContentBlockType)
           /\ currentContentBlockType = "null"

\* which passive frames yield a record: metadata frames and error frames do; a
\* redact-content frame without payload, a frame without event field and a frame of
\* unknown kind do not
PassiveFrameOutputs ==
    /\ \A f \in MetadataFrames \cup ErrorFrames : Processed(f) => call.ret # Null
    /\ \A f \in {RedactFrameNoPayload, NoEventFrame, UnknownFrame} :
           Processed(f) => call.ret = Null

\* C15 as stated: metadata, error, redact-content, event-less and unknown frames leave
\* kind and buffer unchanged in every state; only redact-content without payload, a
\* missing event field and an unknown kind yield no output, and redact-content with an
\* assistant-message payload yields {text: message}; the open block stays open and the
\* next content-block-stop closes it normally.
C15_Original ==
    /\ PassiveFramesKeepState
    /\ PassiveFrameOutputs
    /\ \A m \in RedactMessages : Processed(RedactFrame(m)) => call.ret = TextOnly(m)

\* C15, amended: as stated, for a redact-content frame whose assistant-message payload
\* is not empty; a redact-content frame whose payload is the empty string yields no
\* output, like one without payload.
C15_PassiveFrames ==
    /\ PassiveFramesKeepState
    /\ PassiveFrameOutputs
    /\ \A m \in RedactMessages :
           Processed(RedactFrame(m)) =>
               call.ret = IF m # <<>> THEN TextOnly(m) ELSE Null

C15_Witness ==
    /\ Processed(ContentBlockStopFrame)
    /\ history.afterPassive
    /\ history.heldBefore = Processor("toolUse", <<"{">>)
    /\ call.ret = FenceClose
    /\ currentContentBlockType = "null"

\* C16: the kind after any sequence of frames and resets is the one set by the last
\* frame that sets a kind (a text or tool-use start, a text, tool-use or reasoning
\* delta, a content-block-stop, a boundary frame, reset()), whatever the kind before
\* that frame.  So a content-block-stop yields the closer of the kind set last before
\* it: the closing fence is returned only by a content-block-stop whose last
\* kind-setting predecessor is a tool-use start or delta frame, two closing fences
\* always have a tool-use start or delta frame between them, and after a text delta
\* inside an open tool-use block the next content-block-stop yields the text closer.
C16_LastSetterDecides ==
    /\ currentContentBlockType = history.setter
    /\ call.op = "processEvent" /\ KindSetBy(call.eventText) # "keep" =>
           currentContentBlockType = KindSetBy(call.eventText)
    /\ Processed(ContentBlockStopFrame) => call.ret = Closer(history.setterBefore)
    /\ call.ret = FenceClose =>
           Processed(ContentBlockStopFrame) /\ history.setterBefore = "toolUse"
    /\ history.fenceAfterToolUse

C16_Witness ==
    /\ Processed(ContentBlockStopFrame)
    /\ call.before = Processor("text", <<"{">>)
    /\ history.setterBefore = "text"
    /\ ~history.toolUseSinceFence
    /\ call.ret = TextOnly(NewLine)
---------------------------------------------------------------------------
(* Claims about the converter, checked under ConvSpec *)

\* the part of payload p that follows its data-URL prefix: "data:" and, when the first
\* line has a comma after it, everything up to the last such comma
WithoutDataUrlPrefix(p) ==
    IF ~StartsWith(p, DataColon) THEN p
    ELSE LET firstLine == {i \in 6..Len(p) : \A j \in 6..i : p[j] \notin LineTerminators}
             commas == {i \in firstLine : p[i] = ","}
             cut == IF commas = {} THEN 5 ELSE Max(commas)
         IN SubSeq(p, cut + 1, Len(p))

Blank(content) ==
    content = Undefined \/ \A i \in 1..Len(content.v) : content.v[i] \in WhiteSpace

AttachmentsOf(message) ==
    IF In("extraData", message) THEN message.v.extraData.v ELSE <<>>

IsInline(data) == data.v.source.v.type = Str(<<"b", "a", "s", "e", "6", "4">>)
IsS3(data) == data.v.source.v.type = Str(<<"s", "3">>)

\* the payload the resolution context holds for a locator: that of the first uploaded-file
\* record with the locator if it has one, else the cache mapping's entry, else none
SelectedPayload(locator) ==
    LET records == IF uploadedFiles.t = "array" THEN uploadedFiles.v ELSE <<>>
        hits == {k \in 1..Len(records) : records[k].v.s3Url = locator}
    IN IF hits # {} /\ In("base64EncodedData", records[Min(hits)])
       THEN records[Min(hits)].v.base64EncodedData
       ELSE IF base64Cache.t = "object" /\ locator.v \in DOMAIN base64Cache.v
       THEN base64Cache.v[locator.v]
       ELSE Undefined

\* the bytes an attachment should carry; undefined when no source has them
ExpectedBytes(data) ==
    IF IsInline(data) THEN data.v.source.v.data
    ELSE IF IsS3(data) /\ SelectedPayload(data.v.source.v.data) # Undefined
    THEN Str(WithoutDataUrlPrefix(SelectedPayload(data.v.source.v.data).v))
    ELSE Undefined

SupportedKinds == {Str(<<"i", "m", "a", "g", "e">>), Str(<<"f", "i", "l", "e">>), Str(<<"v", "i", "d", "e", "o">>)}

\* the attachment has bytes and a kind that has a block
Resolves(data) ==
    /\ data.v.type \in SupportedKinds
    /\ ExpectedBytes(data) # Undefined
    /\ Len(ExpectedBytes(data).v) > 0

ResolvingAttachments(message) == SelectSeq(AttachmentsOf(message), Resolves)

IsTextBlock(block) == In("text", block)
IsNonTextBlock(block) == ~In("text", block)
NonTextBlocks(blocks) == SelectSeq(blocks, IsNonTextBlock)

\* the kind of a non-text block, and what it carries
KindOf(block) == CHOOSE k \in DOMAIN block.v : TRUE
BytesOf(block) == block.v[KindOf(block)].v.source.v.bytes
FormatOf(block) == block.v[KindOf(block)].v.format

BlockKindFor(type) ==
    CASE type = Str(<<"i", "m", "a", "g", "e">>) -> "image"
      [] type = Str(<<"f", "i", "l", "e">>) -> "document"
      [] OTHER -> "video"

TableFor(type) ==
    CASE type = Str(<<"i", "m", "a", "g", "e">>) -> ImageFormatMap
      [] type = Str(<<"f", "i", "l", "e">>) -> DocumentFormatMap
      [] OTHER -> VideoFormatMap

SameIgnoringCase(a, b) == ToLowerCase(a) = ToLowerCase(b)

\* the table's value for a MIME type compared case-insensitively; undefined when the
\* table has no such key
ExpectedFormat(type, mediaType) ==
    LET keys == {k \in DOMAIN TableFor(type) : SameIgnoringCase(k, mediaType.v)} IN
    IF keys = {} THEN Undefined ELSE TableFor(type)[CHOOSE k \in keys : TRUE]

InMessage(i) == messages.v[i]
OutBlocks(i) == strandsMessages.v[i].v.content.v

\* the text block of a message's original content, or of '' when it is absent or empty
FallbackBlocks(message) ==
    <<Obj([text |-> IF In("content", message) THEN message.v.content ELSE EmptyStr])>>

\* the text block of a non-blank content
TextFirst(message) ==
    IF Blank(Get(message, "content")) THEN <<>> ELSE <<Obj([text |-> message.v.content])>>

\* the format the block of an attachment carries, as the format function of its kind
\* gives it
FormatGiven(data) ==
    CASE data.v.type = Str(<<"i", "m", "a", "g", "e">>) ->
             getImageFormatFromMimeType(data.v.source.v.mediaType)
      [] data.v.type = Str(<<"f", "i", "l", "e">>) ->
             getDocumentFormatFromMimeType(data.v.source.v.mediaType)
      [] OTHER -> getVideoFormatFromMimeType(data.v.source.v.mediaType)

\* the blocks of the attachments that resolve, in the order of the attachments
ResolvedBlocks(message) ==
    LET att == ResolvingAttachments(message) IN
    [k \in 1..Len(att) |->
        LET inner == [format |-> FormatGiven(att[k]),
                      source |-> Obj([bytes |-> ExpectedBytes(att[k])])]
        IN CASE att[k].v.type = Str(<<"i", "m", "a", "g", "e">>) -> Obj([image |-> Obj(inner)])
             [] att[k].v.type = Str(<<"f", "i", "l", "e">>) ->
                    Obj([document |-> Obj([format |-> inner.format, name |-> att[k].v.name,
                                           source |-> inner.source])])
             [] OTHER -> Obj([video |-> Obj(inner)])]

\* C6: every message convertToStrandsFormat returns has at least one content block; when
\* the content is blank (absent, empty or whitespace only) and no attachment resolves,
\* it has exactly one block, a text block holding the original content, or the empty
\* string when the content is absent or empty.
C6_ContentNeverEmpty ==
    pc = "done" =>
        \A i \in 1..Len(strandsMessages.v) :
            /\ Len(OutBlocks(i)) >= 1
            /\ (Blank(Get(InMessage(i), "content"))
                    /\ Len(ResolvingAttachments(InMessage(i))) = 0)
                   => OutBlocks(i) = FallbackBlocks(InMessage(i))

C6_Witness ==
    /\ pc = "done"
    /\ Len(messages.v) = 1
    /\ Get(InMessage(1), "content") = Str(<<" ">>)
    /\ Len(AttachmentsOf(InMessage(1))) = 2
    /\ OutBlocks(1) = <<Obj([text |-> Str(<<" ">>)])>>

\* locator; when both miss no block is produced for the attachment
ResolvedFromFilesThenCache ==
    \A i \in 1..Len(messages.v) :
        LET att == ResolvingAttachments(InMessage(i))
            blocks == NonTextBlocks(OutBlocks(i))
        IN /\ Len(OutBlocks(i)) >= 1
           /\ Len(blocks) = Len(att)
           /\ \A k \in 1..Len(att) :
                  IsS3(att[k]) =>
                      BytesOf(blocks[k]) =
                          Str(WithoutDataUrlPrefix(
                                  SelectedPayload(att[k].v.source.v.data).v))

\* C8: for an attachment with an s3 source the bytes are those of the payload of the
\* uploaded-file record with the source's locator when that record has a payload, else
\* those of the cache mapping's entry for the locator (the uploaded-file list wins when
\* both hold one); when both miss, also because both structures are absent, no block is
\* produced for the attachment and the message is still converted: the conversion
\* returns, it does not throw.
C8_UploadedFilesThenCache ==
    /\ pc # "threw"
    /\ pc = "done" => ResolvedFromFilesThenCache

\* the input that refutes it: the locator is "constructor", no uploaded-file record has
\* it and the cache mapping is an object without that entry; both lookups miss and the
\* conversion throws instead of dropping the attachment
C8_Witness ==
    /\ pc = "threw"
    /\ strandsMessages = Undefined
    /\ Len(messages.v) = 1
    /\ Len(AttachmentsOf(InMessage(1))) = 1
    /\ AttachmentsOf(InMessage(1))[1].v.source.v.data = Str(<<"c", "o", "n", "s", "t", "r", "u", "c", "t", "o", "r">>)
    /\ uploadedFiles = Undefined
    /\ base64Cache = EmptyObj

\* C9 as stated: every non-text block carries non-empty bytes that have no leading
\* data-URL prefix, whichever source the bytes came from (inline data, uploaded-file
\* record or cache mapping).
C9_Original ==
    pc = "done" =>
        \A i \in 1..Len(strandsMessages.v) :
            \A k \in 1..Len(OutBlocks(i)) :
                IsNonTextBlock(OutBlocks(i)[k]) =>
                    /\ Len(BytesOf(OutBlocks(i)[k]).v) > 0
                    /\ ~StartsWith(BytesOf(OutBlocks(i)[k]).v, DataColon)

\* C9, amended: every non-text block carries non-empty bytes; bytes taken from an
\* uploaded-file record or the cache mapping are the payload without its leading
\* data-URL prefix (a cache value "data:image/png;base64,QUJD" gives "QUJD"), while
\* inline data is used as given, a data-URL prefix included.
C9_BytesStripped ==
    pc = "done" =>
        \A i \in 1..Len(messages.v) :
            LET att == ResolvingAttachments(InMessage(i))
                blocks == NonTextBlocks(OutBlocks(i))
            IN /\ Len(blocks) = Len(att)
               /\ \A k \in 1..Len(att) :
                      /\ Len(BytesOf(blocks[k]).v) > 0
                      /\ IsInline(att[k]) => BytesOf(blocks[k]) = att[k].v.source.v.data
                      /\ IsS3(att[k]) =>
                            LET payload == SelectedPayload(att[k].v.source.v.data).v IN
                            /\ BytesOf(blocks[k]).v = WithoutDataUrlPrefix(payload)
                            /\ payload = <<"d", "a", "t", "a", ":", "i", "m", "a", "g", "e", "/", "p", "n", "g", ";", "b", "a", "s", "e", "6", "4", ",", "Q", "U", "J", "D">>
                                   => BytesOf(blocks[k]).v = <<"Q", "U", "J", "D">>

C9_Witness ==
    /\ pc = "done"
    /\ uploadedFiles = Undefined
    /\ base64Cache = Obj(<<"s", "3", ":", "/", "/", "a">> :> Str(<<"d", "a", "t", "a", ":", "i", "m", "a", "g", "e", "/", "p", "n", "g", ";", "b", "a", "s", "e", "6", "4", ",", "Q", "U", "J", "D">>))
    /\ Len(OutBlocks(1)) = 2
    /\ BytesOf(OutBlocks(1)[2]) = Str(<<"Q", "U", "J", "D">>)

\* the media type, in lower case, is a key every object inherits
NamesInheritedKey(mediaType) == ToLowerCase(mediaType.v) \in ObjectPrototypeKeys

\* what holds of every conversion that returns: the kind of each block is that of its
\* attachment, and its format is the value the static table of that kind gives for the
\* media type compared case-insensitively (absent when the table has none), unless the
\* media type names a key every object inherits
FormatFromTableUnlessInherited ==
    \A i \in 1..Len(messages.v) :
        LET att == ResolvingAttachments(InMessage(i))
            blocks == NonTextBlocks(OutBlocks(i))
        IN /\ Len(blocks) = Len(att)
           /\ \A k \in 1..Len(att) :
                  /\ DOMAIN blocks[k].v = {BlockKindFor(att[k].v.type)}
                  /\ ~NamesInheritedKey(att[k].v.source.v.mediaType) =>
                         FormatOf(blocks[k]) =
                             ExpectedFormat(att[k].v.type, att[k].v.source.v.mediaType)

\* C10: for an attachment of kind image, file or video whose bytes resolve, the block is
\* of kind image, document or video respectively and its format is the value the static
\* table of that kind gives for the MIME type compared case-insensitively; a MIME type
\* that is not in that kind's table leaves the format absent and the block is still
\* produced.
C10_KindAndFormat ==
    pc = "done" =>
        \A i \in 1..Len(messages.v) :
            LET att == ResolvingAttachments(InMessage(i))
                blocks == NonTextBlocks(OutBlocks(i))
            IN /\ Len(blocks) = Len(att)
               /\ \A k \in 1..Len(att) :
                      /\ DOMAIN blocks[k].v = {BlockKindFor(att[k].v.type)}
                      /\ FormatOf(blocks[k]) =
                             ExpectedFormat(att[k].v.type, att[k].v.source.v.mediaType)

\* the input that refutes it: an image whose media type is "CONSTRUCTOR"; no table has
\* the key "constructor", and the block's format is not absent: it is the function Object
C10_Witness ==
    /\ pc = "done"
    /\ Len(messages.v) = 1
    /\ Len(AttachmentsOf(InMessage(1))) = 1
    /\ AttachmentsOf(InMessage(1))[1].v.type = Str(<<"i", "m", "a", "g", "e">>)
    /\ AttachmentsOf(InMessage(1))[1].v.source.v.mediaType = Str(<<"C", "O", "N", "S", "T", "R", "U", "C", "T", "O", "R">>)
    /\ ExpectedFormat(Str(<<"i", "m", "a", "g", "e">>), Str(<<"C", "O", "N", "S", "T", "R", "U", "C", "T", "O", "R">>)) = Undefined
    /\ Len(OutBlocks(1)) = 1
    /\ KindOf(OutBlocks(1)[1]) = "image"
    /\ FormatOf(OutBlocks(1)[1]) = Function(<<"O", "b", "j", "e", "c", "t">>)

---------------------------------------------------------------------------
(* Claims about convertFilesToStrandsContentBlocks, checked under FilesSpec *)

\* a file converts when its read succeeds and the mapping finds a name and a type
Converts(file) ==
    file.reader.event = "load" /\ file.name.t = "string" /\ file.type.t = "string"

\* the base64 part of a data URL: what follows its comma; none when it has no comma
EncodedPart(url) ==
    IF \A i \in 1..Len(url) : url[i] # "," THEN Undefined
    ELSE LET comma == Min({i \in 1..Len(url) : url[i] = ","})
         IN Str(SubSeq(url, comma + 1, Len(url)))

\* the kind of block a file gives, from the prefix of its type
FileKind(file) ==
    IF StartsWith(file.type.v, ImagePrefix) THEN "image"
    ELSE IF StartsWith(file.type.v, VideoPrefix) THEN "video"
    ELSE "document"

\* blocks are the blocks of the files of list that convert, one each, in the list's order
BlocksOfConverting(blocks, list) ==
    LET ok == SelectSeq(list, Converts) IN
    /\ Len(blocks) = Len(ok)
    /\ \A k \in 1..Len(ok) :
           /\ KindOf(blocks[k]) = FileKind(ok[k])
           /\ BytesOf(blocks[k]) = EncodedPart(ok[k].reader.result.v)

FilesPcs == {"called", "reading", "encoded", "unreadable", "converting", "done"}

\* C11: convertFilesToStrandsContentBlocks always completes with a list and never with
\* a rejection: whichever files fail to be read or to be mapped, the call reaches its
\* return, and the list returned holds exactly the blocks of the files that converted,
\* in the order of the input list; the blocks pushed before the return are at every
\* moment those of the converting files among the ones already handled.
C11_FilesInOrder ==
    /\ [](filesPc \in FilesPcs)
    /\ [](filesPc = "done" => BlocksOfConverting(fileContentBlocks, inputFiles))
    /\ [](filesPc \in {"reading", "encoded", "unreadable", "converting"} =>
              BlocksOfConverting(fileContentBlocks, SubSeq(inputFiles, 1, fileIndex - 1)))
    /\ <>(filesPc = "done")

C11_Witness ==
    /\ filesPc = "done"
    /\ Len(inputFiles) = 2
    /\ inputFiles[1].reader = ReadError
    /\ inputFiles[2].type = Str(<<"v", "i", "d", "e", "o", "/", "m", "p", "4">>)
    /\ fileContentBlocks = <<VideoBlock(Str(<<"m", "p", "4">>), Str(<<"A", "A", "A", "A">>))>>
============================================================================
